---- MODULE Spec2Model ----
(***************************************************************************)
(* label-backup: the scheduler, its job pipeline, the reconcile loop, the   *)
(* discovery registry, the retention sweep and the webhook sender with its *)
(* circuit breaker, as state machines.                                     *)
(*                                                                         *)
(* The cron library (robfig/cron/v3) is used as in NewScheduler: every     *)
(* AddFunc wraps the new entry's job in its own SkipIfStillRunning gate,   *)
(* Remove takes the entry off the schedule and leaves a running job alone. *)
(* io.Pipe is synchronous: a Write blocks until the reader has taken the   *)
(* bytes or one of the two ends has been closed.                           *)
(***************************************************************************)
EXTENDS Integers, Sequences, FiniteSets, TLC

\* ---------------------------------------------------------------- bounds
MaxEntries == 2        \* cron.AddFunc calls in one run
MaxChunks == 1         \* data chunks a dump writes before the gzip footer
LimitInEnv == 1        \* CONCURRENT_BACKUP_LIMIT of the modelled environment
MaxQueued == 1         \* notifications waiting in the sender queue
MaxClock == 600        \* seconds the clock of the sender may reach

MaxReloads == 1        \* SIGHUPs the main loop takes

\* ------------------------------------------------------- program constants
DefaultConcurrencyLimit == 20
QueueCapacity == 100

\* ------------------------------------------------------------------ maps
Put(m, k, v) == [x \in (DOMAIN m) \cup {k} |-> IF x = k THEN v ELSE m[x]]

Del(m, k) == [x \in (DOMAIN m) \ {k} |-> m[x]]

Keep(m, S) == [x \in (DOMAIN m) \cap S |-> m[x]]

EmptyMap == [x \in {} |-> 0]

\* ------------------------------------------------------------ input sets
Ids == {"c1", "c2"}

EveryMinute == "*/1 * * * *"

AtThree == "0 3 * * *"

Daily == "@daily"

BadMinute == "61 * * * *"

Conn1 == "postgresql://u:p@h1:5432/app"

Conn2 == "postgresql://u:p@h2:5432/app"

EntryIDs == 1..MaxEntries

\* model.BackupSpec as parseLabels builds it from the labels of the model
BackupSpec(id, cron, conn) ==
  [Enabled |-> TRUE, Type |-> "postgres", Conn |-> conn, Database |-> "",
   Cron |-> cron, Dest |-> "local", Prefix |-> "", Webhook |-> "",
   Retention |-> 0, ContainerID |-> id]

\* ------------------------------------------------------------ cron parsing
\* len(strings.Fields(strings.TrimSpace(cron))) on the expressions of the model
CronFieldCount(cron) ==
  CASE cron \in {EveryMinute, AtThree, BadMinute} -> 5
    [] cron = Daily -> 1
    [] OTHER -> 0

\* strings.HasPrefix(cron, "@")
IsMacro(cron) == cron = Daily

\* AddOrUpdateJob: a 5-field expression that is no macro gets "0 " prepended
CronSpecToUse(cron) ==
  IF ~IsMacro(cron) /\ CronFieldCount(cron) = 5 THEN "0 " \o cron ELSE cron

\* cron.AddFunc under cron.WithSeconds(): a descriptor, or six fields each
\* within its range (minute 61 is not)
CronParses(expr) == expr \in {"0 " \o EveryMinute, "0 " \o AtThree, Daily}

\* ------------------------------------------------------------ object names
\* a redis connection string without a database path
RedisConn == "redis://h:6379"

\* GenerateObjectName, the part of spec.Conn after its last "/" and before a
\* later "?", on the connection strings of the model; "database" when the
\* string has no "/"
ConnDbPart(conn) ==
  CASE conn \in {Conn1, Conn2} -> "app"
    [] conn = RedisConn -> "h:6379"
    [] OTHER -> "database"

\* strings.ReplaceAll(dbNamePart, ":", "_") and the strings.Map that turns
\* every rune but letters, digits, "-" and "." into "_"
SanitizeDb(str) ==
  CASE str = "h:6379" -> "h_6379"
    [] str = "my db" -> "my_db"
    [] OTHER -> str

\* strings.Trim(spec.Prefix, "/")
TrimSlashes(str) ==
  CASE str = "/pg/" -> "pg"
    [] str = "/" -> ""
    [] OTHER -> str

\* GenerateObjectName: the database part is spec.Database, else what follows
\* the last "/" of the connection string, sanitized
DbNamePart(spec) ==
  SanitizeDb(IF spec.Database # "" THEN spec.Database
             ELSE ConnDbPart(spec.Conn))

\* GenerateObjectName: name is the key up to the timestamp, ts the time the
\* timestamp is formatted from; "-<timestamp>.dump.gz" follows the name
GenerateObjectName(spec, t) ==
  [name |-> (IF spec.Prefix # "" THEN TrimSlashes(spec.Prefix) \o "/" ELSE "")
              \o spec.Type \o "-" \o DbNamePart(spec),
   ts |-> t]

NoObject == [name |-> "", ts |-> 0 - 1]

\* hex SHA-256 of the bytes read, as a function of the stream of n chunks
Checksum(n) == (n * 31 + 7) % 97

\* ------------------------------------------------------------------- state
VARIABLES
  registry,      \* discovery.Watcher.registry: container-id -> BackupSpec
  activeJobs,    \* Scheduler.activeJobs: container-id -> [spec, cronID]
  closures,      \* jobFunc(containerID, spec) of every entry ever added
  cronEntries,   \* ids of the entries on the cron schedule
  nextID,        \* cron's next EntryID
  inv,           \* the invocation of each entry (its goroutines and locals)
  held,          \* len(Scheduler.concurrencyLimit)
  limit,         \* cap(Scheduler.concurrencyLimit)
  objects,       \* keys of the stored objects
  sidecars,      \* key -> content of <key>.metadata.json
  queue,         \* Sender.queue
  globalURL,     \* Sender.globalURL
  globalSecret,  \* Sender.globalSecret
  maxRetries,    \* Sender.maxRetries
  now,           \* wall clock, seconds; the runs of the jobs modelled here
                 \* fall within one second, so runs of one database share
                 \* their key
  gc,            \* the gc.Runner of the sweep and the position of its RunGC
  breaker,       \* Sender.circuitBreaker
  worker,        \* the goroutine Sender.worker and its locals
  stop,          \* Sender.Stop: the queue closed, the call returned
  watchLog,      \* the last line Watcher.parseAndRegister logged
  docker,        \* the labels ContainerInspect returned last, by container
  ticks,         \* how the last cron tick of each entry ended
  main,          \* func main: its position and what it has stopped
  local,         \* the files on disk and the last call on the LocalWriter
  watcher,       \* Watcher.Start: its position, reconnectBackoff and the
                 \* waits it has made before reconnecting
  containers     \* the containers of the Docker runtime, id -> labels

vars == <<registry, activeJobs, closures, cronEntries, nextID, inv, held,
          limit, objects, sidecars, queue, globalURL, globalSecret, maxRetries,
          now, gc, breaker,
          worker, stop, watchLog, docker, ticks, main, local, watcher,
          containers>>

\* what the scheduler, the jobs and the store leave alone
restVars ==
  <<now, gc, breaker, worker, stop, watchLog, docker, ticks, main, local,
    watcher, containers>>

cfgVars == <<limit, globalURL, globalSecret, maxRetries>>

schedVars == <<activeJobs, closures, cronEntries, nextID>>

storeVars == <<objects, sidecars>>

\* webhook.NotificationPayload, the fields the job sets
NoPayload == [ContainerID |-> "", Success |-> FALSE, Error |-> "", BackupSize |-> 0]

\* locals of one run of the function jobFunc returns
IdleInv ==
  [pc |-> "idle", expired |-> FALSE, objectName |-> NoObject,
   dpc |-> "none", wpc |-> "none", pipe |-> "none", chunk |-> FALSE,
   produced |-> 0, dumpResult |-> "none",
   dumpErr |-> FALSE, writeErr |-> FALSE, bytesWritten |-> 0, checksum |-> 0,
   payload |-> NoPayload, enqueued |-> 0, metadata |-> "none"]

Running(e) == inv[e].pc # "idle"

\* no call on a LocalWriter yet
NoCall == [op |-> "none", key |-> <<>>, err |-> FALSE, path |-> <<>>]

\* a disk that is not followed
NoDisk == [files |-> {}, last |-> NoCall]

\* the environment of the process: the variables the model follows
Env(limitText, url, secret) ==
  [CONCURRENT_BACKUP_LIMIT |-> limitText, WEBHOOK_URL |-> url,
   WEBHOOK_SECRET |-> secret, LOCAL_BACKUP_PATH |-> ""]

NoEnv == Env("", "", "")

\* func main in its select loop, nothing stopped yet
MainLoop ==
  [pc |-> "loop", ctxCancelled |-> FALSE, cronStopped |-> FALSE,
   gcCronStopped |-> FALSE, env |-> NoEnv, reloads |-> 0, oldJobs |-> 0]

\* no entry has ticked yet
NoTicks == [e \in EntryIDs |-> "none"]

\* the closures still referred to: by an entry on the schedule or by a running
\* goroutine (the others are garbage)
Referenced(entries) == entries \cup {e \in EntryIDs : Running(e)}


\* ----------------------------------------------------------- configuration
\* globalConfig["WEBHOOK_URL"] of an environment that sets it
WebhookURL == "http://hooks.example/backup"

\* NewScheduler: CONCURRENT_BACKUP_LIMIT when it is an integer > 0, else 20
NewSchedulerLimit(value) == IF value > 0 THEN value ELSE DefaultConcurrencyLimit

\* dumper factories registered by the init functions of package dumper
DumperTypes == {"postgres", "mysql", "mongodb", "redis"}

GetDumperOK(spec) == spec.Type \in DumperTypes

\* ------------------------------------------------------------------ Sender
\* Enqueue as it would be if a full queue gave up its oldest item
EnqueueDropsOldest(q, payload, spec) ==
  LET targetURL == IF spec.Webhook # "" THEN spec.Webhook ELSE globalURL
  IN IF targetURL = "" THEN q
     ELSE IF Len(q) < QueueCapacity
          THEN Append(q, [payload |-> payload, targetURL |-> targetURL,
                          secret |-> globalSecret])
          ELSE Append(Tail(q), [payload |-> payload, targetURL |-> targetURL,
                                secret |-> globalSecret])

\* Sender.Enqueue: the spec's webhook overrides the global URL; without a URL
\* nothing is queued; the send on the channel never blocks
Enqueue(q, payload, spec) ==
  LET targetURL == IF spec.Webhook # "" THEN spec.Webhook ELSE globalURL
  IN IF targetURL = "" THEN q
     ELSE IF Len(q) < QueueCapacity
          THEN Append(q, [payload |-> payload, targetURL |-> targetURL,
                          secret |-> globalSecret])
          ELSE q

\* Sender.worker takes the next item off the queue; what it does with the
\* item is followed in WorkerSelect, BreakerCall and SendAttempt
WorkerReceive ==
  /\ queue # <<>>
  /\ queue' = Tail(queue)
  /\ UNCHANGED <<registry, schedVars, inv, held, cfgVars, storeVars, restVars>>

\* --------------------------------------------------------------- Scheduler
\* the job table and the cron schedule as one value
SchedState ==
  [activeJobs |-> activeJobs, closures |-> closures,
   cronEntries |-> cronEntries, nextID |-> nextID]

\* AddOrUpdateJobOn as it would be if an unchanged cron were scheduled afresh
AddOrUpdateJobOnReschedules(s, containerID, spec) ==
  LET exists == containerID \in DOMAIN s.activeJobs
      afterRemove == IF exists
                     THEN s.cronEntries \ {s.activeJobs[containerID].cronID}
                     ELSE s.cronEntries
      cronSpecToUse == CronSpecToUse(spec.Cron)
  IN IF CronParses(cronSpecToUse)
     THEN [activeJobs |-> Put(s.activeJobs, containerID,
                              [spec |-> spec, cronID |-> s.nextID]),
           closures |-> Keep(Put(s.closures, s.nextID,
                                 [containerID |-> containerID, spec |-> spec]),
                             Referenced(afterRemove \cup {s.nextID})),
           cronEntries |-> afterRemove \cup {s.nextID},
           nextID |-> s.nextID + 1]
     ELSE [s EXCEPT !.cronEntries = afterRemove,
                    !.closures = Keep(s.closures, Referenced(afterRemove))]

\* Scheduler.AddOrUpdateJob on the scheduler s. An unchanged cron replaces the
\* stored spec and nothing else. Otherwise the old entry is removed, and
\* cron.AddFunc(cronSpecToUse, s.jobFunc(containerID, spec)) adds an entry
\* whose closure holds spec; when AddFunc fails the error is returned
AddOrUpdateJobOn(s, containerID, spec) ==
  LET exists == containerID \in DOMAIN s.activeJobs
      afterRemove == IF exists
                     THEN s.cronEntries \ {s.activeJobs[containerID].cronID}
                     ELSE s.cronEntries
      cronSpecToUse == CronSpecToUse(spec.Cron)
  IN IF exists /\ s.activeJobs[containerID].spec.Cron = spec.Cron
     THEN [s EXCEPT !.activeJobs[containerID].spec = spec]
     ELSE IF CronParses(cronSpecToUse)
     THEN [activeJobs |-> Put(s.activeJobs, containerID,
                              [spec |-> spec, cronID |-> s.nextID]),
           closures |-> Keep(Put(s.closures, s.nextID,
                                 [containerID |-> containerID, spec |-> spec]),
                             Referenced(afterRemove \cup {s.nextID})),
           cronEntries |-> afterRemove \cup {s.nextID},
           nextID |-> s.nextID + 1]
     ELSE [s EXCEPT !.cronEntries = afterRemove,
                    !.closures = Keep(s.closures, Referenced(afterRemove))]

\* Scheduler.RemoveJob on the scheduler s
RemoveJobOn(s, containerID) ==
  IF containerID \in DOMAIN s.activeJobs
  THEN LET left == s.cronEntries \ {s.activeJobs[containerID].cronID}
       IN [s EXCEPT !.cronEntries = left,
                    !.closures = Keep(s.closures, Referenced(left)),
                    !.activeJobs = Del(s.activeJobs, containerID)]
  ELSE s

\* the scheduler becomes t (no more than MaxEntries entries are ever added)
SchedBecomes(t) ==
  /\ t.nextID <= MaxEntries + 1
  /\ activeJobs' = t.activeJobs
  /\ closures' = t.closures
  /\ cronEntries' = t.cronEntries
  /\ nextID' = t.nextID

AddOrUpdateJob(containerID, spec) ==
  /\ SchedBecomes(AddOrUpdateJobOn(SchedState, containerID, spec))
  /\ UNCHANGED <<registry, inv, held, cfgVars, storeVars, queue, restVars>>

RemoveJob(containerID) ==
  /\ SchedBecomes(RemoveJobOn(SchedState, containerID))
  /\ UNCHANGED <<registry, inv, held, cfgVars, storeVars, queue, restVars>>

\* ------------------------------------------------------------- cron ticks
\* SkipIfStillRunning, the gate of entry e: the previous run has not returned
CronTickSkipRunning(e) ==
  /\ e \in cronEntries
  /\ Running(e)
  /\ UNCHANGED <<registry, schedVars, inv, held, cfgVars, storeVars, queue, restVars>>

\* jobFunc, select default: the semaphore is full
CronTickSkipLimit(e) ==
  /\ e \in cronEntries
  /\ ~Running(e)
  /\ held >= limit
  /\ UNCHANGED <<registry, schedVars, inv, held, cfgVars, storeVars, queue, restVars>>

\* CronTickRun as it would be if the job did not try the semaphore
CronTickRunNoLimit(e) ==
  /\ e \in cronEntries
  /\ ~Running(e)
  /\ held' = held + 1
  /\ inv' = [inv EXCEPT ![e] =
               [IdleInv EXCEPT !.pc = "getDumper",
                               !.payload.ContainerID = closures[e].containerID]]
  /\ UNCHANGED <<registry, schedVars, cfgVars, storeVars, queue, restVars>>

\* jobFunc, the send on concurrencyLimit succeeds: the job starts
CronTickRun(e) ==
  /\ e \in cronEntries
  /\ ~Running(e)
  /\ held < limit
  /\ held' = held + 1
  /\ inv' = [inv EXCEPT ![e] =
               [IdleInv EXCEPT !.pc = "getDumper",
                               !.payload.ContainerID = closures[e].containerID]]
  /\ UNCHANGED <<registry, schedVars, cfgVars, storeVars, queue, restVars>>

\* ---------------------------------------------- cron ticks, with their log
\* what the ticks leave alone besides the scheduler and the store
tickRest ==
  <<now, gc, breaker, worker, stop, watchLog, docker, main, local, watcher,
    containers>>

\* SkipIfStillRunning logs the skip: the tick of entry e is dropped because
\* the previous run has not returned
TickSkipRunning(e) ==
  /\ e \in cronEntries
  /\ Running(e)
  /\ ticks' = [ticks EXCEPT ![e] = "running"]
  /\ UNCHANGED <<registry, schedVars, inv, held, cfgVars, storeVars, queue,
                 tickRest>>

\* jobFunc, select default: the semaphore is full, "Skipping backup due to
\* concurrency limit reached" is logged and the function returns
TickSkipLimit(e) ==
  /\ e \in cronEntries
  /\ ~Running(e)
  /\ held >= limit
  /\ ticks' = [ticks EXCEPT ![e] = "limit"]
  /\ UNCHANGED <<registry, schedVars, inv, held, cfgVars, storeVars, queue,
                 tickRest>>

\* jobFunc, the send on concurrencyLimit succeeds: the job starts
TickRun(e) ==
  /\ e \in cronEntries
  /\ ~Running(e)
  /\ held < limit
  /\ held' = held + 1
  /\ inv' = [inv EXCEPT ![e] =
               [IdleInv EXCEPT !.pc = "getDumper",
                               !.payload.ContainerID = closures[e].containerID]]
  /\ ticks' = [ticks EXCEPT ![e] = "ran"]
  /\ UNCHANGED <<registry, schedVars, cfgVars, storeVars, queue, tickRest>>

\* cron fires entry e
Tick(e) == TickSkipRunning(e) \/ TickSkipLimit(e) \/ TickRun(e)


\* ------------------------------------------------------ jobFunc, the steps
\* ExitEarly as it would be if an early exit returned without notifying
ExitEarlyNoNotify(e, errMsg) ==
  LET payload == [inv[e].payload EXCEPT !.Success = FALSE, !.Error = errMsg]
  IN /\ queue' = queue
     /\ inv' = [inv EXCEPT ![e].payload = payload, ![e].pc = "return"]

\* the early exits of jobFunc: payload.Success = false, payload.Error = errMsg,
\* webhookSender.Enqueue(payload, spec), return
ExitEarly(e, errMsg) ==
  LET payload == [inv[e].payload EXCEPT !.Success = FALSE, !.Error = errMsg]
  IN /\ Len(queue) < MaxQueued
     /\ queue' = Enqueue(queue, payload, closures[e].spec)
     /\ inv' = [inv EXCEPT ![e].payload = payload,
                           ![e].enqueued = @ + 1,
                           ![e].pc = "return"]

JobGetDumper(e) ==
  /\ inv[e].pc = "getDumper"
  /\ IF GetDumperOK(closures[e].spec)
     THEN /\ inv' = [inv EXCEPT ![e].pc = "testConnection"]
          /\ UNCHANGED queue
     ELSE ExitEarly(e, "Failed to get dumper")
  /\ UNCHANGED <<registry, schedVars, held, cfgVars, storeVars, restVars>>

\* dbDumper.TestConnection(jobCtx, spec): ok tells whether the database answers
JobTestConnection(e, ok) ==
  /\ inv[e].pc = "testConnection"
  /\ IF ok
     THEN /\ inv' = [inv EXCEPT ![e].pc = "getWriter"]
          /\ UNCHANGED queue
     ELSE ExitEarly(e, "Database connection test failed")
  /\ UNCHANGED <<registry, schedVars, held, cfgVars, storeVars, restVars>>

\* JobGetWriter as it would be if the writer-creation failure only returned
JobGetWriterSilent(e, ok) ==
  /\ inv[e].pc = "getWriter"
  /\ IF ok
     THEN inv' = [inv EXCEPT
                  ![e].pc = "pipe",
                  ![e].objectName = GenerateObjectName(closures[e].spec, now),
                  ![e].pipe = "open",
                  ![e].dpc = "start",
                  ![e].wpc = "start"]
     ELSE inv' = [inv EXCEPT ![e].payload.Error = "Failed to get writer",
                             ![e].pc = "return"]
  /\ UNCHANGED <<registry, schedVars, held, cfgVars, storeVars, queue, restVars>>

\* writer.GetWriter(spec, globalConfig): ok tells whether the writer could be
\* built (NewLocalWriter: disk-space check, MkdirAll); then io.Pipe(),
\* GenerateObjectName and the two goroutines
JobGetWriter(e, ok) ==
  /\ inv[e].pc = "getWriter"
  /\ IF ok
     THEN /\ inv' = [inv EXCEPT
                  ![e].pc = "pipe",
                  ![e].objectName = GenerateObjectName(closures[e].spec, now),
                  ![e].pipe = "open",
                  ![e].dpc = "start",
                  ![e].wpc = "start"]
          /\ UNCHANGED queue
     ELSE ExitEarly(e, "Failed to get writer")
  /\ UNCHANGED <<registry, schedVars, held, cfgVars, storeVars, restVars>>

\* context.WithTimeout(context.Background(), backupTimeout) expires; the job
\* reads jobCtx.Done() in the two goroutines, so an expiry before the pipe
\* exists is taken at the last step before it
JobDeadline(e) ==
  /\ inv[e].pc \in {"getWriter", "pipe"}
  /\ ~inv[e].expired
  /\ inv' = [inv EXCEPT ![e].expired = TRUE]
  /\ UNCHANGED <<registry, schedVars, held, cfgVars, storeVars, queue, restVars>>

\* ---- the dumper goroutine
\* select on jobCtx.Done(): cancelled -> dumpErr, deferred pw.Close()
DumperStart(e) ==
  /\ inv[e].dpc = "start"
  /\ IF inv[e].expired
     THEN inv' = [inv EXCEPT ![e].dumpErr = TRUE,
                             ![e].pipe = "eof",
                             ![e].dpc = "done"]
     ELSE inv' = [inv EXCEPT ![e].dpc = "dump"]
  /\ UNCHANGED <<registry, schedVars, held, cfgVars, storeVars, queue, restVars>>

\* Dump returns an error before StreamAndGzip has a gzip writer (URI parse,
\* cmd.StdoutPipe): dumpErr, pw.CloseWithError(dumpErr)
DumperFailEarly(e) ==
  /\ inv[e].dpc = "dump"
  /\ inv[e].produced = 0
  /\ inv' = [inv EXCEPT ![e].dumpErr = TRUE,
                        ![e].pipe = "err",
                        ![e].dpc = "done"]
  /\ UNCHANGED <<registry, schedVars, held, cfgVars, storeVars, queue, restVars>>

\* StreamAndGzip: gw.Write flushes compressed data into pw.Write, which blocks
\* until the reader has taken it
DumperWrite(e) ==
  /\ inv[e].dpc = "dump"
  /\ inv[e].produced < MaxChunks
  /\ inv' = [inv EXCEPT ![e].dpc = "write", ![e].chunk = TRUE]
  /\ UNCHANGED <<registry, schedVars, held, cfgVars, storeVars, queue, restVars>>

\* DumperClose as it would be if closing the gzip writer wrote nothing
DumperCloseNoFooter(e, result) ==
  /\ inv[e].dpc = "dump"
  /\ inv' = [inv EXCEPT ![e].dpc = "close", ![e].dumpResult = result]
  /\ UNCHANGED <<registry, schedVars, held, cfgVars, storeVars, queue, restVars>>

\* StreamAndGzip returns: the deferred gw.Close() writes the gzip header (when
\* nothing was written yet) and footer through pw.Write; result is what Dump
\* then does: return nil, return an error, or panic
DumperClose(e, result) ==
  /\ inv[e].dpc = "dump"
  /\ inv' = [inv EXCEPT ![e].dpc = "close",
                        ![e].chunk = TRUE,
                        ![e].dumpResult = result]
  /\ UNCHANGED <<registry, schedVars, held, cfgVars, storeVars, queue, restVars>>

\* after Dump: nil -> deferred pw.Close(); error -> pw.CloseWithError(dumpErr);
\* panic -> recover sets dumpErr, then pw.Close()
DumperReturn(e) ==
  /\ inv[e].dpc = "close"
  /\ ~inv[e].chunk
  /\ inv' = [inv EXCEPT
               ![e].dumpErr = inv[e].dumpResult # "ok",
               ![e].pipe = IF inv[e].dumpResult = "err" THEN "err" ELSE "eof",
               ![e].dpc = "done"]
  /\ UNCHANGED <<registry, schedVars, held, cfgVars, storeVars, queue, restVars>>

\* ---- the writer goroutine (LocalWriter.Write)
\* select on jobCtx.Done(): cancelled -> writeErr, and the pipe is not read;
\* else Write: ok tells whether the checks before os.Create pass (free disk
\* space, MkdirAll, Create); Create makes the file
WriterStart(e, ok) ==
  /\ inv[e].wpc = "start"
  /\ IF inv[e].expired \/ ~ok
     THEN /\ inv' = [inv EXCEPT ![e].writeErr = TRUE, ![e].wpc = "done"]
          /\ UNCHANGED objects
     ELSE /\ inv' = [inv EXCEPT ![e].wpc = "copy"]
          /\ objects' = objects \cup {inv[e].objectName}
  /\ UNCHANGED <<registry, schedVars, held, cfgVars, sidecars, queue, restVars>>

\* io.Copy: one Read takes the chunk the dumper is writing and unblocks it
WriterRead(e) ==
  /\ inv[e].wpc = "copy"
  /\ inv[e].chunk
  /\ inv' = [inv EXCEPT
               ![e].chunk = FALSE,
               ![e].bytesWritten = @ + 1,
               ![e].produced = IF inv[e].dpc = "write" THEN @ + 1 ELSE @,
               ![e].dpc = IF inv[e].dpc = "write" THEN "dump" ELSE @]
  /\ UNCHANGED <<registry, schedVars, held, cfgVars, storeVars, queue, restVars>>

\* io.Copy sees EOF: Write returns (filePath, bytesWritten, checksum, nil)
WriterEOF(e) ==
  /\ inv[e].wpc = "copy"
  /\ ~inv[e].chunk
  /\ inv[e].pipe = "eof"
  /\ inv' = [inv EXCEPT ![e].checksum = Checksum(inv[e].bytesWritten),
                        ![e].wpc = "done"]
  /\ UNCHANGED <<registry, schedVars, held, cfgVars, storeVars, queue, restVars>>

\* io.Copy returns errCopy: os.Remove(filePath) (removed tells whether it
\* worked), Write returns ("", 0, "", err)
WriterCopyFailed(e, removed) ==
  /\ inv' = [inv EXCEPT ![e].writeErr = TRUE,
                        ![e].bytesWritten = 0,
                        ![e].wpc = "done"]
  /\ objects' = IF removed THEN objects \ {inv[e].objectName} ELSE objects
  /\ UNCHANGED <<registry, schedVars, held, cfgVars, sidecars, queue, restVars>>

\* the read end reports the error the dumper closed the pipe with
WriterPipeError(e, removed) ==
  /\ inv[e].wpc = "copy"
  /\ ~inv[e].chunk
  /\ inv[e].pipe = "err"
  /\ WriterCopyFailed(e, removed)

\* writing to the file fails (disk full): Write returns without draining
WriterFileError(e, removed) ==
  /\ inv[e].wpc = "copy"
  /\ WriterCopyFailed(e, removed)


\* ---- after wg.Wait()
FinalErrorMsg(dumpErr, writeErr) ==
  IF dumpErr /\ writeErr THEN "dump error; write error"
  ELSE IF dumpErr THEN "dump error"
  ELSE IF writeErr THEN "write error"
  ELSE ""

\* writer.BackupMetadata as jobFunc fills it
BackupMetadata(i, jobSuccess) ==
  [BackupSize |-> i.bytesWritten, Checksum |-> i.checksum, Success |-> jobSuccess]

\* JobWait as it would be if the sidecar were written for any run with bytes
JobWaitSidecarForBytes(e, storeOk) ==
  LET i == inv[e]
      jobSuccess == ~i.dumpErr /\ ~i.writeErr
      payload == [i.payload EXCEPT
                    !.Success = jobSuccess,
                    !.BackupSize = i.bytesWritten,
                    !.Error = IF jobSuccess THEN ""
                              ELSE FinalErrorMsg(i.dumpErr, i.writeErr)]
  IN /\ i.pc = "pipe"
     /\ i.dpc = "done"
     /\ i.wpc = "done"
     /\ IF i.bytesWritten > 0
        THEN /\ sidecars' = IF storeOk
                            THEN Put(sidecars, i.objectName,
                                     BackupMetadata(i, jobSuccess))
                            ELSE sidecars
             /\ inv' = [inv EXCEPT ![e].payload = payload,
                                   ![e].metadata = IF storeOk THEN "written"
                                                   ELSE "failed",
                                   ![e].pc = "notify"]
             /\ UNCHANGED objects
        ELSE /\ inv' = [inv EXCEPT ![e].payload = payload, ![e].pc = "notify"]
             /\ UNCHANGED storeVars
     /\ UNCHANGED <<registry, schedVars, held, cfgVars, queue, restVars>>

\* jobSuccess, the payload, then WriteMetadata for a success with bytes, or
\* DeleteObject for a failure with bytes; storeOk tells whether that call on
\* the writer works (a failure of either is only logged)
JobWait(e, storeOk) ==
  LET i == inv[e]
      jobSuccess == ~i.dumpErr /\ ~i.writeErr
      payload == [i.payload EXCEPT
                    !.Success = jobSuccess,
                    !.BackupSize = i.bytesWritten,
                    !.Error = IF jobSuccess THEN ""
                              ELSE FinalErrorMsg(i.dumpErr, i.writeErr)]
  IN /\ i.pc = "pipe"
     /\ i.dpc = "done"
     /\ i.wpc = "done"
     /\ IF jobSuccess /\ i.bytesWritten > 0
        THEN /\ sidecars' = IF storeOk
                            THEN Put(sidecars, i.objectName,
                                     BackupMetadata(i, jobSuccess))
                            ELSE sidecars
             /\ inv' = [inv EXCEPT ![e].payload = payload,
                                   ![e].metadata = IF storeOk THEN "written"
                                                   ELSE "failed",
                                   ![e].pc = "notify"]
             /\ UNCHANGED objects
        ELSE IF ~jobSuccess /\ i.bytesWritten > 0
        THEN /\ objects' = IF storeOk THEN objects \ {i.objectName} ELSE objects
             /\ inv' = [inv EXCEPT ![e].payload = payload, ![e].pc = "notify"]
             /\ UNCHANGED sidecars
        ELSE /\ inv' = [inv EXCEPT ![e].payload = payload, ![e].pc = "notify"]
             /\ UNCHANGED storeVars
     /\ UNCHANGED <<registry, schedVars, held, cfgVars, queue, restVars>>

\* s.webhookSender.Enqueue(payload, spec) at the end of jobFunc
JobNotify(e) ==
  /\ inv[e].pc = "notify"
  /\ Len(queue) < MaxQueued
  /\ queue' = Enqueue(queue, inv[e].payload, closures[e].spec)
  /\ inv' = [inv EXCEPT ![e].enqueued = @ + 1, ![e].pc = "return"]
  /\ UNCHANGED <<registry, schedVars, held, cfgVars, storeVars, restVars>>

\* JobReturn as it would be if the slot a job gives back went to an entry
\* whose tick had been skipped for the full semaphore
JobReturnCatchesUp(e) ==
  LET waiting == {w \in cronEntries : ticks[w] = "limit" /\ ~Running(w)}
  IN /\ inv[e].pc = "return"
     /\ IF waiting = {}
        THEN /\ held' = held - 1
             /\ inv' = [inv EXCEPT ![e] = IdleInv]
        ELSE \E w \in waiting :
               /\ held' = held
               /\ inv' = [inv EXCEPT
                    ![e] = IdleInv,
                    ![w] = [IdleInv EXCEPT
                              !.pc = "getDumper",
                              !.payload.ContainerID = closures[w].containerID]]
     /\ closures' = IF e \in cronEntries THEN closures ELSE Del(closures, e)
     /\ UNCHANGED <<registry, activeJobs, cronEntries, nextID, cfgVars,
                    storeVars, queue, restVars>>

\* the function returns: deferred cancel(), deferred <-s.concurrencyLimit, and
\* the SkipIfStillRunning gate of the entry opens again
JobReturn(e) ==
  /\ inv[e].pc = "return"
  /\ held' = held - 1
  /\ inv' = [inv EXCEPT ![e] = IdleInv]
  /\ closures' = IF e \in cronEntries THEN closures ELSE Del(closures, e)
  /\ UNCHANGED <<registry, activeJobs, cronEntries, nextID, cfgVars, storeVars,
                 queue, restVars>>

\* --------------------------------------------------------------- discovery
LabelKeys ==
  {"backup.enabled", "backup.type", "backup.cron", "backup.conn"}

\* the labels of a container that asks for a backup
LabelsOn(type, cron, conn) ==
  [k \in LabelKeys |->
     CASE k = "backup.enabled" -> "true"
       [] k = "backup.type" -> type
       [] k = "backup.cron" -> cron
       [] k = "backup.conn" -> conn]

\* the labels of a container whose backup was switched off
LabelsOff == [k \in {"backup.enabled"} |-> "false"]

\* a container without backup labels
NoLabels == [k \in {} |-> ""]

\* strings.TrimSpace on the label values of the model
TrimSpace(str) ==
  CASE str = " " \o EveryMinute -> EveryMinute
    [] str = " true " -> "true"
    [] OTHER -> str

\* strings.ToLower on the label values of the model
ToLower(str) == IF str = "Postgres" THEN "postgres" ELSE str

\* getLabel of parseLabels
GetLabel(labels, key, defaultValue) ==
  IF key \in DOMAIN labels THEN TrimSpace(labels[key]) ELSE defaultValue

\* an int64 as its eight bytes, the least significant first
Int64(n) ==
  [i \in 1..8 |-> IF i <= 4 THEN (n \div 256 ^ (i - 1)) % 256 ELSE 0]

\* 24 * time.Hour, in nanoseconds: 0x4E94914F0000
NanosPerDay == <<0, 0, 79, 145, 148, 78, 0, 0>>

\* the product of two int64, which Go wraps to 64 bits
RECURSIVE MulFrom(_, _, _, _)
MulFrom(a, b, k, carry) ==
  IF k > 8 THEN <<>>
  ELSE LET RECURSIVE Column(_)
           Column(i) == IF i = 0 THEN 0
                        ELSE a[i] * b[k + 1 - i] + Column(i - 1)
           t == Column(k) + carry
       IN <<t % 256>> \o MulFrom(a, b, k + 1, t \div 256)

Mul64(a, b) == MulFrom(a, b, 1, 0)

\* the sign bit of an int64
Negative64(a) == a[8] >= 128

\* 0 - a in 64 bits
RECURSIVE NegFrom(_, _, _)
NegFrom(a, k, carry) ==
  IF k > 8 THEN <<>>
  ELSE LET t == (255 - a[k]) + carry
       IN <<t % 256>> \o NegFrom(a, k + 1, t \div 256)

Neg64(a) == NegFrom(a, 1, 1)

\* the quotient of a non-negative int64 by a divisor below 2^23
RECURSIVE DivFrom(_, _, _, _)
DivFrom(a, d, k, rem) ==
  IF k = 0 THEN <<>>
  ELSE LET t == rem * 256 + a[k]
       IN DivFrom(a, d, k - 1, t % d) \o <<t \div d>>

Div64(a, d) == DivFrom(a, d, 8, 0)

\* a time.Duration, an int64 of nanoseconds, in whole seconds toward zero
Seconds(a) ==
  LET whole(m) == Div64(Div64(Div64(m, 1000), 1000), 1000)
      int(m) == m[1] + 256 * m[2] + 65536 * m[3] + 16777216 * m[4]
  IN IF Negative64(a) THEN 0 - int(whole(Neg64(a))) ELSE int(whole(a))

\* time.ParseDuration on the retention labels of the model: a number with a
\* unit, or "0"; [ok, seconds]
ParseDuration(str) ==
  CASE str = "0" -> [ok |-> TRUE, d |-> 0]
    [] str = "24h" -> [ok |-> TRUE, d |-> 24 * 3600]
    [] str = "-1h" -> [ok |-> TRUE, d |-> 0 - 3600]
    [] OTHER -> [ok |-> FALSE, d |-> 0]

\* strings.HasSuffix(value, "d") and strings.TrimSuffix(value, "d") on the
\* retention labels of the model
HasSuffixD(str) == str \in {"7d", "-5d", "200000d", "213504d", "xd"}

TrimSuffixD(str) ==
  CASE str = "7d" -> "7"
    [] str = "-5d" -> "-5"
    [] str = "200000d" -> "200000"
    [] str = "213504d" -> "213504"
    [] str = "xd" -> "x"
    [] OTHER -> str

\* strconv.Atoi on the retention labels of the model: [ok, n]
Atoi(str) ==
  CASE str = "7" -> [ok |-> TRUE, n |-> 7]
    [] str = "1" -> [ok |-> TRUE, n |-> 1]
    [] str = "-5" -> [ok |-> TRUE, n |-> 0 - 5]
    [] str = "200000" -> [ok |-> TRUE, n |-> 200000]
    [] str = "213504" -> [ok |-> TRUE, n |-> 213504]
    [] OTHER -> [ok |-> FALSE, n |-> 0]

\* time.Duration(days) * 24 * time.Hour, in seconds
DaysDuration(days) == Seconds(Mul64(Int64(days), NanosPerDay))

\* parseRetentionDuration: a Go duration, a day count with or without "d";
\* what is negative or does not parse gives 0
parseRetentionDuration(retentionStr) ==
  LET value == TrimSpace(retentionStr)
      parsed == ParseDuration(value)
      days == Atoi(IF HasSuffixD(value) THEN TrimSuffixD(value) ELSE value)
  IN IF value = "" THEN 0
     ELSE IF parsed.ok THEN (IF parsed.d < 0 THEN 0 ELSE parsed.d)
     ELSE IF days.ok THEN (IF days.n < 0 THEN 0 ELSE DaysDuration(days.n))
     ELSE 0

\* validateLabelValues: dest, type, and at least five cron fields
validateLabelValues(spec) ==
  /\ spec.Dest \in {"", "local", "remote"}
  /\ spec.Type \in {"postgres", "mysql", "mongodb", "redis"}
  /\ CronFieldCount(spec.Cron) >= 5

\* parseLabels: [ok, spec]
parseLabels(labels, containerID) ==
  LET cron == GetLabel(labels, "backup.cron", "")
      typeVal == ToLower(GetLabel(labels, "backup.type", ""))
      conn == GetLabel(labels, "backup.conn", "")
      spec == [Enabled |-> TRUE, Type |-> typeVal, Conn |-> conn,
               Database |-> GetLabel(labels, "backup.database", ""),
               Cron |-> cron,
               Dest |-> ToLower(GetLabel(labels, "backup.dest", "local")),
               Prefix |-> GetLabel(labels, "backup.prefix", ""),
               Webhook |-> GetLabel(labels, "backup.webhook", ""),
               Retention |-> parseRetentionDuration(
                               GetLabel(labels, "backup.retention", "")),
               ContainerID |-> containerID]
      ok == /\ GetLabel(labels, "backup.enabled", "") = "true"
            /\ cron # ""
            /\ typeVal # ""
            /\ (conn # "" \/ typeVal = "redis")
            /\ validateLabelValues(spec)
  IN [ok |-> ok, spec |-> spec]

\* parseAndRegister as it would be if only a missing label or "false"
\* unregistered
parseAndRegisterKeepsInvalid(reg, containerID, labels) ==
  LET parsed == parseLabels(labels, containerID)
  IN IF parsed.ok THEN Put(reg, containerID, parsed.spec)
     ELSE IF "backup.enabled" \in DOMAIN labels
             /\ labels["backup.enabled"] # "false"
          THEN reg
          ELSE Del(reg, containerID)

\* Watcher.parseAndRegister on the registry reg: a spec that parses is stored;
\* one that does not is unregistered, unless backup.enabled is exactly "true"
parseAndRegister(reg, containerID, labels) ==
  LET parsed == parseLabels(labels, containerID)
  IN IF parsed.ok THEN Put(reg, containerID, parsed.spec)
     ELSE IF "backup.enabled" \in DOMAIN labels
             /\ labels["backup.enabled"] = "true"
          THEN reg
          ELSE Del(reg, containerID)

\* the line parseAndRegister logs at Info or Warn level, if any: log is the
\* line logged last before
parseAndRegisterLog(reg, log, containerID, labels) ==
  LET line(msg) == [msg |-> msg, containerID |-> containerID]
  IN IF parseLabels(labels, containerID).ok
     THEN line("Registered/Updated backup spec for container")
     ELSE IF containerID \notin DOMAIN reg THEN log
     ELSE IF "backup.enabled" \notin DOMAIN labels
     THEN line("Backup labels removed or backup.enabled not 'true'. Unregistering.")
     ELSE IF labels["backup.enabled"] = "false"
     THEN line("Container has backup.enabled=false. Unregistering.")
     ELSE IF labels["backup.enabled"] # "true"
     THEN line("Container has backup.enabled set to an invalid value. Unregistering.")
     ELSE log

\* NewWatcher: the watcher before Start, its reconnectBackoff and maxBackoff
\* in seconds; waits are the pauses Start has made before reconnecting
NewWatcher ==
  [pc |-> "start", reconnectBackoff |-> 1, maxBackoff |-> 30, waits |-> <<>>]

\* Watcher.handleEvent for a container event: "start", "create" and "update"
\* inspect the container (inspectOk) and register its labels; "destroy",
\* "die", "kill" and "stop" unregister it
HandleEvent(containerID, action, inspectOk, labels) ==
  /\ registry' =
       CASE action \in {"start", "create", "update"} ->
              IF inspectOk THEN parseAndRegister(registry, containerID, labels)
              ELSE registry
         [] action \in {"destroy", "die", "kill", "stop"} ->
              Del(registry, containerID)
         [] OTHER -> registry
  /\ watchLog' =
       CASE action \in {"start", "create", "update"} ->
              IF inspectOk
              THEN parseAndRegisterLog(registry, watchLog, containerID, labels)
              ELSE watchLog
         [] action \in {"destroy", "die", "kill", "stop"} ->
              IF containerID \in DOMAIN registry
              THEN [msg |-> "Unregistered backup spec due to container event",
                    containerID |-> containerID]
              ELSE watchLog
         [] OTHER -> watchLog
  /\ UNCHANGED <<schedVars, inv, held, cfgVars, storeVars, queue, now, gc,
                 breaker, worker, stop, ticks, main, local, watcher>>

\* ----------------------------------------------------------- reconcile loop
\* the orders in which range may visit the keys of a map
RECURSIVE Orders(_)
Orders(S) ==
  IF S = {} THEN {<<>>}
  ELSE UNION {{<<x>> \o rest : rest \in Orders(S \ {x})} : x \in S}

\* for id, spec := range currentRegistry: AddOrUpdateJob for an enabled spec
\* (an error is logged), RemoveJob for a disabled one
RECURSIVE ReconcileOn(_, _, _)
ReconcileOn(s, reg, order) ==
  IF order = <<>> THEN s
  ELSE LET id == Head(order)
       IN ReconcileOn(IF reg[id].Enabled
                      THEN AddOrUpdateJobOn(s, id, reg[id])
                      ELSE RemoveJobOn(s, id),
                      reg, Tail(order))

\* case <-reconcileTicker.C of the main loop
ReconcileTick ==
  /\ \E order \in Orders(DOMAIN registry) :
       SchedBecomes(ReconcileOn(SchedState, registry, order))
  /\ UNCHANGED <<registry, inv, held, cfgVars, storeVars, queue, restVars>>

\* ------------------------------------------------------- garbage collection
\* DefaultGlobalRetentionPeriod "7d", in seconds
DefaultGlobalRetentionPeriod == 7 * 24 * 3600

\* the instant the sweeps of the model run at, seconds
SweepTime == 30 * 24 * 3600

\* the keys the store of a sweep may hold, and the directory of each
StoredKeys == {"pg/k1", "pg/k2", "my/k3"}

KeyDir(key) == IF key \in {"pg/k1", "pg/k2"} THEN "pg" ELSE "my"

\* LocalWriter.ListObjects: the objects whose key lies under prefix
ListObjects(stored, prefix) ==
  {o \in stored : prefix = "" \/ KeyDir(o.name) = prefix}

\* BackupObjectMeta.LastModified of a stored object: the second it was
\* written in, which is the second it was named in
LastModified(o) == o.ts

\* time.Time.Before
Before(t, u) == t < u

\* no sweep under way
NoRunner ==
  [pc |-> "none", spec |-> BackupSpec("", "", ""), effectiveRetention |-> 0,
   dryRun |-> FALSE, globalRetentionPeriod |-> 0, cancelled |-> FALSE,
   listCalls |-> 0, listFailed |-> FALSE, objects |-> <<>>, i |-> 0,
   cutoffDate |-> 0, deleteCount |-> 0, deleteCalls |-> <<>>,
   failedDeletes |-> <<>>, ctxErrSeen |-> FALSE, result |-> "none"]

\* NewRunner as it would be if the retention of the spec were ignored
NewRunnerIgnoresSpec(spec, globalRetentionPeriod, dryRun) ==
  [NoRunner EXCEPT !.pc = "ready", !.spec = spec,
                   !.effectiveRetention = globalRetentionPeriod,
                   !.globalRetentionPeriod = globalRetentionPeriod,
                   !.dryRun = dryRun]

\* gc.NewRunner: the retention of the spec when it is positive, else the
\* global one
NewRunner(spec, globalRetentionPeriod, dryRun) ==
  [NoRunner EXCEPT !.pc = "ready", !.spec = spec,
                   !.effectiveRetention =
                      IF spec.Retention > 0 THEN spec.Retention
                      ELSE globalRetentionPeriod,
                   !.globalRetentionPeriod = globalRetentionPeriod,
                   !.dryRun = dryRun]

gcRest == <<registry, schedVars, inv, held, cfgVars, sidecars, queue, now,
            breaker, worker, stop, watchLog, docker, ticks, main, local,
            watcher, containers>>

\* the context of RunGC is cancelled while the sweep is under way
GCCancel ==
  /\ gc.pc \in {"ready", "list", "loop"}
  /\ ~gc.cancelled
  /\ gc' = [gc EXCEPT !.cancelled = TRUE]
  /\ UNCHANGED <<objects, gcRest>>

\* RunGC up to the listing: nothing to do without a positive retention
GCStart ==
  /\ gc.pc = "ready"
  /\ gc' = IF gc.effectiveRetention <= 0
           THEN [gc EXCEPT !.pc = "done", !.result = "nil"]
           ELSE [gc EXCEPT !.pc = "list"]
  /\ UNCHANGED <<objects, gcRest>>

\* RunGC lists the objects under the prefix of the spec: the listing fails
\* (ok = FALSE), is empty, or is kept in the order the writer gave it in
GCList(ok, order) ==
  /\ gc.pc = "list"
  /\ order \in Orders(ListObjects(objects, gc.spec.Prefix))
  /\ gc' =
       IF ~ok
       THEN [gc EXCEPT !.pc = "done", !.listCalls = @ + 1,
                       !.listFailed = TRUE, !.result = "list"]
       ELSE IF order = <<>>
       THEN [gc EXCEPT !.pc = "done", !.listCalls = @ + 1, !.result = "nil"]
       ELSE [gc EXCEPT !.pc = "loop", !.listCalls = @ + 1,
                       !.objects = order, !.i = 1,
                       !.cutoffDate = now - gc.effectiveRetention]
  /\ UNCHANGED <<objects, gcRest>>

\* one turn of the loop of RunGC as it would be if a dry run deleted too
GCIterateDeletesInDryRun(ok) ==
  /\ gc.pc = "loop"
  /\ gc.i <= Len(gc.objects)
  /\ LET obj == gc.objects[gc.i]
     IN IF gc.cancelled
        THEN /\ ok
             /\ gc' = [gc EXCEPT !.pc = "done", !.ctxErrSeen = TRUE,
                                 !.result = "ctx"]
             /\ UNCHANGED objects
        ELSE IF ~Before(LastModified(obj), gc.cutoffDate)
        THEN /\ ok
             /\ gc' = [gc EXCEPT !.i = @ + 1]
             /\ UNCHANGED objects
        ELSE IF ok
        THEN /\ gc' = [gc EXCEPT !.i = @ + 1, !.deleteCount = @ + 1,
                                 !.deleteCalls = Append(@, obj.name)]
             /\ objects' = objects \ {obj}
        ELSE /\ gc' = [gc EXCEPT !.i = @ + 1,
                                 !.deleteCalls = Append(@, obj.name),
                                 !.failedDeletes = Append(@, obj.name)]
             /\ UNCHANGED objects
  /\ UNCHANGED gcRest

\* one turn of the loop of RunGC as it would be if a failed delete ended it
GCIterateStopsOnFailure(ok) ==
  /\ gc.pc = "loop"
  /\ gc.i <= Len(gc.objects)
  /\ LET obj == gc.objects[gc.i]
     IN IF gc.cancelled
        THEN /\ ok
             /\ gc' = [gc EXCEPT !.pc = "done", !.ctxErrSeen = TRUE,
                                 !.result = "ctx"]
             /\ UNCHANGED objects
        ELSE IF ~Before(LastModified(obj), gc.cutoffDate)
        THEN /\ ok
             /\ gc' = [gc EXCEPT !.i = @ + 1]
             /\ UNCHANGED objects
        ELSE IF gc.dryRun
        THEN /\ ok
             /\ gc' = [gc EXCEPT !.i = @ + 1, !.deleteCount = @ + 1]
             /\ UNCHANGED objects
        ELSE IF ok
        THEN /\ gc' = [gc EXCEPT !.i = @ + 1, !.deleteCount = @ + 1,
                                 !.deleteCalls = Append(@, obj.name)]
             /\ objects' = objects \ {obj}
        ELSE /\ gc' = [gc EXCEPT !.pc = "done", !.result = "delete",
                                 !.deleteCalls = Append(@, obj.name),
                                 !.failedDeletes = Append(@, obj.name)]
             /\ UNCHANGED objects
  /\ UNCHANGED gcRest

\* one turn of the loop of RunGC: a cancelled context ends the sweep; an
\* object last modified before the cut-off is counted in a dry run and is
\* deleted otherwise, the delete succeeding (ok) or failing; a failed delete
\* is noted and the loop goes on
GCIterate(ok) ==
  /\ gc.pc = "loop"
  /\ gc.i <= Len(gc.objects)
  /\ LET obj == gc.objects[gc.i]
     IN IF gc.cancelled
        THEN /\ ok
             /\ gc' = [gc EXCEPT !.pc = "done", !.ctxErrSeen = TRUE,
                                 !.result = "ctx"]
             /\ UNCHANGED objects
        ELSE IF ~Before(LastModified(obj), gc.cutoffDate)
        THEN /\ ok
             /\ gc' = [gc EXCEPT !.i = @ + 1]
             /\ UNCHANGED objects
        ELSE IF gc.dryRun
        THEN /\ ok
             /\ gc' = [gc EXCEPT !.i = @ + 1, !.deleteCount = @ + 1]
             /\ UNCHANGED objects
        ELSE IF ok
        THEN /\ gc' = [gc EXCEPT !.i = @ + 1, !.deleteCount = @ + 1,
                                 !.deleteCalls = Append(@, obj.name)]
             /\ objects' = objects \ {obj}
        ELSE /\ gc' = [gc EXCEPT !.i = @ + 1,
                                 !.deleteCalls = Append(@, obj.name),
                                 !.failedDeletes = Append(@, obj.name)]
             /\ UNCHANGED objects
  /\ UNCHANGED gcRest

\* RunGC after the loop: an error when a delete failed
GCReturn ==
  /\ gc.pc = "loop"
  /\ gc.i > Len(gc.objects)
  /\ gc' = [gc EXCEPT !.pc = "done",
                      !.result = IF gc.failedDeletes # <<>> THEN "delete"
                                 ELSE "nil"]
  /\ UNCHANGED <<objects, gcRest>>

\* ------------------------------------------------------ webhook, the sender
\* the largest WEBHOOK_MAX_RETRIES of the model
MaxRetriesInEnv == 34

\* NewSender: NewCircuitBreaker(5, 5*time.Minute), in seconds
FailureThreshold == 5

RecoveryTimeout == 5 * 60

\* NewCircuitBreaker
NewCircuitBreaker(failureThreshold, recoveryTimeout) ==
  [state |-> "Closed", failureCount |-> 0, lastFailureTime |-> 0,
   failureThreshold |-> failureThreshold, recoveryTimeout |-> recoveryTimeout]

\* DefaultWebhookMaxRetries
DefaultWebhookMaxRetries == 3

\* no item in the hands of the worker
NoItem == [payload |-> NoPayload, targetURL |-> "", secret |-> ""]

\* Sender.worker waiting on the queue: the item in its hands, the attempt of
\* sendWithRetries, the HTTP requests made for the item, and what became of
\* the item before
\* no request built yet; the signature <<>> stands for no header
NoRequest == [url |-> "", body |-> <<>>, signature |-> <<>>]

IdleWorker ==
  [pc |-> "select", item |-> NoItem, attempt |-> 0, requests |-> 0,
   outcome |-> "none", request |-> NoRequest, slept |-> <<>>]

\* json.Marshal(payload): the bytes of the body
Marshal(payload) == <<"json", payload>>

\* hmac.New(sha256.New, key), Write(data), Sum(nil): the digest as a term
\* that keeps its key and its message (no two inputs share a digest)
HmacSha256(key, data) == [mac |-> "hmac-sha256", key |-> key, data |-> data]

\* hex.EncodeToString
HexEncode(bytes) == <<"hex", bytes>>

\* Sender.sendAttempt builds the request: the marshalled payload is the
\* body, and with a secret the header X-LabelBackup-Signature-SHA256 is the
\* hex HMAC of that body
NewRequest(item) ==
  LET jsonData == Marshal(item.payload)
  IN [url |-> item.targetURL,
      body |-> jsonData,
      signature |-> IF item.secret # ""
                    THEN HexEncode(HmacSha256(item.secret, jsonData))
                    ELSE NoRequest.signature]

\* nothing logged yet
NoLog == [msg |-> "", containerID |-> ""]

\* a container the watcher has no labels of: never inspected, or gone
NotInspected == [k \in {"<none>"} |-> ""]

senderRest == <<registry, schedVars, inv, held, cfgVars, storeVars, gc,
                watchLog, docker, ticks, main, local, watcher, containers>>

\* a job hands a payload to Sender.Enqueue before Stop was called
SenderEnqueue(payload, spec) ==
  /\ ~stop.closed
  /\ queue' = Enqueue(queue, payload, spec)
  /\ UNCHANGED <<breaker, worker, stop, now, senderRest>>

\* Sender.worker receives the next item from the queue, closed or not
WorkerSelect ==
  /\ worker.pc = "select"
  /\ queue # <<>>
  /\ queue' = Tail(queue)
  /\ worker' = [worker EXCEPT !.pc = "call", !.item = Head(queue),
                              !.attempt = 0, !.requests = 0,
                              !.slept = <<>>]
  /\ UNCHANGED <<breaker, stop, now, senderRest>>

\* Sender.worker as it would be if it returned as soon as the queue is closed
WorkerExitLeavesItems ==
  /\ worker.pc = "select"
  /\ stop.closed
  /\ worker' = [worker EXCEPT !.pc = "exited"]
  /\ UNCHANGED <<queue, breaker, stop, now, senderRest>>

\* Sender.worker finds the queue closed and drained, and returns
WorkerExit ==
  /\ worker.pc = "select"
  /\ queue = <<>>
  /\ stop.closed
  /\ worker' = [worker EXCEPT !.pc = "exited"]
  /\ UNCHANGED <<queue, breaker, stop, now, senderRest>>

\* CircuitBreaker.Call up to fn as it would be if an open breaker let every
\* call through
BreakerCallNeverShorts ==
  /\ worker.pc = "call"
  /\ breaker' = IF breaker.state = "Open"
                THEN [breaker EXCEPT !.state = "HalfOpen"]
                ELSE breaker
  /\ worker' = [worker EXCEPT !.pc = "send"]
  /\ UNCHANGED <<queue, stop, now, senderRest>>

\* sendWithRetries enters CircuitBreaker.Call: an open breaker whose last
\* failure is at least the recovery timeout old becomes half-open and lets
\* the call through, a younger one returns "circuit breaker is open" at
\* once; a closed breaker lets the call through
BreakerCall ==
  /\ worker.pc = "call"
  /\ IF breaker.state = "Open"
     THEN IF now - breaker.lastFailureTime >= breaker.recoveryTimeout
          THEN /\ breaker' = [breaker EXCEPT !.state = "HalfOpen"]
               /\ worker' = [worker EXCEPT !.pc = "send"]
          ELSE /\ worker' = [worker EXCEPT !.pc = "select", !.item = NoItem,
                                           !.outcome = "open"]
               /\ UNCHANGED breaker
     ELSE /\ worker' = [worker EXCEPT !.pc = "send"]
          /\ UNCHANGED breaker
  /\ UNCHANGED <<queue, stop, now, senderRest>>

\* BreakerRecord as it would be if a failed trial closed the breaker
BreakerRecordForgivesTrial(cb, failed, t) ==
  IF cb.state = "HalfOpen"
  THEN IF failed
       THEN [cb EXCEPT !.failureCount = @ + 1, !.lastFailureTime = t,
                       !.state = "Closed"]
       ELSE [cb EXCEPT !.state = "Closed", !.failureCount = 0]
  ELSE IF failed
       THEN [cb EXCEPT !.failureCount = @ + 1, !.lastFailureTime = t,
                       !.state = IF cb.failureCount + 1 >= cb.failureThreshold
                                 THEN "Open" ELSE @]
       ELSE [cb EXCEPT !.failureCount = 0]

\* what CircuitBreaker.Call does with the result of fn
BreakerRecord(cb, failed, t) ==
  IF cb.state = "HalfOpen"
  THEN IF failed
       THEN [cb EXCEPT !.failureCount = @ + 1, !.lastFailureTime = t,
                       !.state = "Open"]
       ELSE [cb EXCEPT !.state = "Closed", !.failureCount = 0]
  ELSE IF failed
       THEN [cb EXCEPT !.failureCount = @ + 1, !.lastFailureTime = t,
                       !.state = IF cb.failureCount + 1 >= cb.failureThreshold
                                 THEN "Open" ELSE @]
       ELSE [cb EXCEPT !.failureCount = 0]

\* time.Second in nanoseconds: 0x3B9ACA00
NanosPerSecond == <<0, 202, 154, 59, 0, 0, 0, 0>>

\* a << n on an int64: the bits shifted out are lost
Shl64(a, n) ==
  LET byte(i) == IF i >= 1 /\ i <= 8 THEN a[i] ELSE 0
      q == n \div 8
      r == n % 8
  IN [i \in 1..8 |-> ((byte(i - q) * 2 ^ r) % 256)
                       + ((byte(i - q - 1) * 2 ^ r) \div 256)]

\* a < b on two int64
RECURSIVE LessFrom(_, _, _)
LessFrom(a, b, k) ==
  IF k = 0 THEN FALSE
  ELSE IF a[k] # b[k] THEN a[k] < b[k] ELSE LessFrom(a, b, k - 1)

Less64(a, b) ==
  IF Negative64(a) # Negative64(b) THEN Negative64(a) ELSE LessFrom(a, b, 8)

\* backoffDuration of sendWithRetries after the failed attempt numbered
\* attempt (from 0): time.Duration(2<<attempt) * time.Second, and 10 seconds
\* when that is more
BackoffDuration(attempt) ==
  LET backoffDuration == Mul64(Shl64(Int64(2), attempt), NanosPerSecond)
      ceiling == Mul64(Int64(10), NanosPerSecond)
  IN IF Less64(ceiling, backoffDuration) THEN ceiling ELSE backoffDuration

\* time.Sleep(d), in the whole seconds it pauses: a negative or zero d
\* returns at once
Sleep(d) == IF Negative64(d) THEN 0 ELSE Seconds(d)

\* the pause of sendWithRetries after each failed attempt but the last, by
\* the number of the attempt
Backoffs ==
  [attempt \in 0..(MaxRetriesInEnv - 1) |-> Sleep(BackoffDuration(attempt))]

\* one sendAttempt of the loop in sendWithRetries: an HTTP request that is
\* answered 2xx (ok) or not; a failed attempt before the last is followed by
\* time.Sleep(backoffDuration) (the pauses of the call are kept in slept);
\* the send has failed when the attempt after maxRetries retries fails
SendAttempt(ok) ==
  /\ worker.pc = "send"
  /\ IF ok
     THEN /\ worker' = [worker EXCEPT !.pc = "select", !.item = NoItem,
                                      !.requests = @ + 1, !.outcome = "sent",
                                      !.request = NewRequest(worker.item)]
          /\ breaker' = BreakerRecord(breaker, FALSE, now)
     ELSE IF worker.attempt < maxRetries
     THEN /\ worker' = [worker EXCEPT !.attempt = @ + 1, !.requests = @ + 1,
                                      !.request = NewRequest(worker.item),
                                      !.slept =
                                        Append(@, Backoffs[worker.attempt])]
          /\ UNCHANGED breaker
     ELSE /\ worker' = [worker EXCEPT !.pc = "select", !.item = NoItem,
                                      !.requests = @ + 1,
                                      !.outcome = "failed",
                                      !.request = NewRequest(worker.item)]
          /\ breaker' = BreakerRecord(breaker, TRUE, now)
  /\ UNCHANGED <<queue, stop, now, senderRest>>

\* Sender.Stop closes the queue
SenderStop ==
  /\ ~stop.closed
  /\ stop' = [stop EXCEPT !.closed = TRUE]
  /\ UNCHANGED <<queue, breaker, worker, now, senderRest>>

\* Sender.Stop returns from wg.Wait once the worker has returned
StopReturn ==
  /\ stop.closed
  /\ ~stop.returned
  /\ worker.pc = "exited"
  /\ stop' = [stop EXCEPT !.returned = TRUE]
  /\ UNCHANGED <<queue, breaker, worker, now, senderRest>>

\* time passes
ClockTick(seconds) ==
  /\ now + seconds <= MaxClock
  /\ now' = now + seconds
  /\ UNCHANGED <<queue, breaker, worker, stop, senderRest>>

\* ------------------------------------------------------------------- Init
\* after NewSender, NewScheduler and NewWatcher, in an environment whose
\* CONCURRENT_BACKUP_LIMIT is limitValue (0: not set) and whose WEBHOOK_URL
\* is url
InitSender(limitValue, url, secret, m, disk, retries) ==
  /\ registry = EmptyMap
  /\ activeJobs = EmptyMap
  /\ closures = EmptyMap
  /\ cronEntries = {}
  /\ nextID = 1
  /\ inv = [e \in EntryIDs |-> IdleInv]
  /\ held = 0
  /\ limit = NewSchedulerLimit(limitValue)
  /\ globalURL = url
  /\ globalSecret = secret
  /\ maxRetries = retries
  /\ objects = {}
  /\ sidecars = EmptyMap
  /\ queue = <<>>
  /\ now = 0
  /\ gc = NoRunner
  /\ breaker = NewCircuitBreaker(FailureThreshold, RecoveryTimeout)
  /\ worker = IdleWorker
  /\ stop = [closed |-> FALSE, returned |-> FALSE]
  /\ watchLog = NoLog
  /\ docker = [id \in Ids |-> NotInspected]
  /\ ticks = NoTicks
  /\ main = m
  /\ local = disk
  /\ watcher = NewWatcher
  /\ containers = EmptyMap

\* NewSender without WEBHOOK_MAX_RETRIES keeps DefaultWebhookMaxRetries
InitAs(limitValue, url, secret, m, disk) ==
  InitSender(limitValue, url, secret, m, disk, DefaultWebhookMaxRetries)

InitWith(limitValue, url) ==
  InitAs(limitValue, url, "", MainLoop, NoDisk)

\* the steps of the run of entry e in which the database may be unreachable,
\* and a reachable one is dumped in one piece and stored without failure
PlainStep(e) ==
  \/ JobGetDumper(e)
  \/ \E ok \in BOOLEAN : JobTestConnection(e, ok)
  \/ JobGetWriter(e, TRUE)
  \/ DumperStart(e)
  \/ DumperClose(e, "ok")
  \/ DumperReturn(e)
  \/ WriterStart(e, TRUE)
  \/ WriterRead(e)
  \/ WriterEOF(e)
  \/ JobWait(e, TRUE)
  \/ JobNotify(e)
  \/ JobReturn(e)

\* ------------------------------------------- the scheduler, driven directly
\* AddOrUpdateJob and RemoveJob called with any spec, every entry ticking at
\* any time, CONCURRENT_BACKUP_LIMIT = LimitInEnv, no webhook URL
SchedInit == InitWith(LimitInEnv, "")

SchedInputs(id) ==
  IF id = "c1"
  THEN {BackupSpec(id, EveryMinute, Conn1), BackupSpec(id, EveryMinute, Conn2),
        BackupSpec(id, Daily, Conn1), BackupSpec(id, BadMinute, Conn1)}
  ELSE {BackupSpec(id, Daily, Conn2)}

SchedNext ==
  \/ \E id \in Ids : \E spec \in SchedInputs(id) : AddOrUpdateJob(id, spec)
  \/ \E id \in Ids : RemoveJob(id)
  \/ \E e \in EntryIDs : CronTickSkipRunning(e)
  \/ \E e \in EntryIDs : CronTickSkipLimit(e)
  \/ \E e \in EntryIDs : CronTickRun(e)
  \/ \E e \in EntryIDs : PlainStep(e)

SchedSpec == SchedInit /\ [][SchedNext]_vars

\* ----------------------------------------- the scheduler under contention
\* two containers whose jobs share a semaphore of one slot; cron fires every
\* entry again and again, and a job that has started runs to its end
TickInit == InitWith(LimitInEnv, "")

TickNext ==
  \/ \E id \in Ids : \E spec \in SchedInputs(id) : AddOrUpdateJob(id, spec)
  \/ \E e \in EntryIDs : TickSkipRunning(e)
  \/ \E e \in EntryIDs : TickSkipLimit(e)
  \/ \E e \in EntryIDs : TickRun(e)
  \/ \E e \in EntryIDs : PlainStep(e)

TickSpec == TickInit /\ [][TickNext]_vars

\* cron fires an entry at every match of its schedule, whatever the state of
\* the semaphore at that instant; the goroutine of a job is scheduled
TickLiveSpec ==
  /\ TickSpec
  /\ \A e \in EntryIDs : WF_vars(Tick(e))
  /\ \A e \in EntryIDs : WF_vars(PlainStep(e))

\* ------------------------------------------------ the names of the objects
\* jobs of specs that differ in type, database, connection string and prefix
NameInputs(id) ==
  {[BackupSpec(id, EveryMinute, Conn1) EXCEPT !.Database = "mydb"],
   [BackupSpec(id, EveryMinute, Conn1)
      EXCEPT !.Type = "mysql", !.Database = "testdb",
             !.Prefix = "backups/prod"],
   [BackupSpec(id, EveryMinute, Conn1) EXCEPT !.Prefix = "/pg/"],
   [BackupSpec(id, EveryMinute, Conn1) EXCEPT !.Database = "my db"],
   [BackupSpec(id, EveryMinute, RedisConn) EXCEPT !.Type = "redis"],
   [BackupSpec(id, EveryMinute, "") EXCEPT !.Type = "redis"]}

NameNext ==
  \/ \E spec \in NameInputs("c1") : AddOrUpdateJob("c1", spec)
  \/ \E e \in EntryIDs : CronTickRun(e)
  \/ \E e \in EntryIDs : PlainStep(e)

NameSpec == SchedInit /\ [][NameNext]_vars

\* ------------------------------------------------ the pipeline of one job
\* one container whose job is scheduled and rescheduled, every outcome of the
\* dump, of the store and of the deadline, CONCURRENT_BACKUP_LIMIT = 1 and a
\* webhook URL
PipeInit == InitWith(1, WebhookURL)

PipeInputs ==
  {BackupSpec("c1", EveryMinute, Conn1),
   [BackupSpec("c1", AtThree, Conn1) EXCEPT !.Type = "sqlite"]}

\* the steps of the run of entry e
JobStep(e) ==
  \/ JobGetDumper(e)
  \/ \E ok \in BOOLEAN : JobTestConnection(e, ok)
  \/ \E ok \in BOOLEAN : JobGetWriter(e, ok)
  \/ DumperStart(e)
  \/ DumperFailEarly(e)
  \/ DumperWrite(e)
  \/ \E result \in {"ok", "err", "panic"} : DumperClose(e, result)
  \/ DumperReturn(e)
  \/ \E ok \in BOOLEAN : WriterStart(e, ok)
  \/ WriterRead(e)
  \/ WriterEOF(e)
  \/ \E removed \in BOOLEAN : WriterPipeError(e, removed)
  \/ \E removed \in BOOLEAN : WriterFileError(e, removed)
  \/ \E storeOk \in BOOLEAN : JobWait(e, storeOk)
  \/ JobNotify(e)
  \/ JobReturn(e)

PipeNext ==
  \/ \E spec \in PipeInputs : AddOrUpdateJob("c1", spec)
  \/ \E e \in EntryIDs : CronTickSkipRunning(e)
  \/ \E e \in EntryIDs : CronTickSkipLimit(e)
  \/ \E e \in EntryIDs : CronTickRun(e)
  \/ \E e \in EntryIDs : JobDeadline(e)
  \/ \E e \in EntryIDs : JobStep(e)
  \/ WorkerReceive

PipeSpec == PipeInit /\ [][PipeNext]_vars

\* the goroutines of a job are scheduled, and so is the sender's worker
PipeLiveSpec ==
  /\ PipeSpec
  /\ \A e \in EntryIDs : WF_vars(JobStep(e))
  /\ WF_vars(WorkerReceive)

\* ------------------------------------------ the sender and its one worker
\* the payload of a successful backup of c1
SentPayload ==
  [ContainerID |-> "c1", Success |-> TRUE, Error |-> "", BackupSize |-> 1]

\* the steps the clock takes: thirty seconds, or the rest of five minutes
TickSeconds == {30, RecoveryTimeout - 30}

SenderInit == InitWith(0, WebhookURL)

\* the worker's turns, each send answered or not by the endpoint
WorkerStep ==
  \/ WorkerSelect
  \/ WorkerExit
  \/ BreakerCall
  \/ \E ok \in BOOLEAN : SendAttempt(ok)

SenderNext ==
  \/ /\ Len(queue) < MaxQueued
     /\ SenderEnqueue(SentPayload, BackupSpec("c1", AtThree, Conn1))
  \/ WorkerStep
  \/ SenderStop
  \/ StopReturn
  \/ \E seconds \in TickSeconds : ClockTick(seconds)

SenderSpec == SenderInit /\ [][SenderNext]_vars

\* the worker goroutine is scheduled and every HTTP request ends, answered
\* or timed out; Stop is woken when the worker has returned
SenderLiveSpec ==
  /\ SenderSpec
  /\ WF_vars(WorkerStep)
  /\ WF_vars(StopReturn)

\* ----------------------------------------------- the retries of one send
\* a Sender made by NewSender with WEBHOOK_MAX_RETRIES 0, unset (the
\* default) or MaxRetriesInEnv
RetryInit ==
  \E retries \in {0, DefaultWebhookMaxRetries, MaxRetriesInEnv} :
    InitSender(0, WebhookURL, "", MainLoop, NoDisk, retries)

\* notifications are queued and the worker sends each, every attempt
\* answered 2xx or not
RetryNext ==
  \/ /\ Len(queue) < MaxQueued
     /\ SenderEnqueue(SentPayload, BackupSpec("c1", AtThree, Conn1))
  \/ WorkerSelect
  \/ BreakerCall
  \/ \E ok \in BOOLEAN : SendAttempt(ok)

RetrySpec == RetryInit /\ [][RetryNext]_vars

\* ------------------------------------------------ the queue of the sender
\* the payload of a failed backup of c1
FailedPayload ==
  [ContainerID |-> "c1", Success |-> FALSE, Error |-> "dump failed",
   BackupSize |-> 0]

\* jobs enqueue faster than the worker receives; of the failures at most one
\* waits in the queue at a time
QueueNext ==
  \/ SenderEnqueue(SentPayload, BackupSpec("c1", AtThree, Conn1))
  \/ /\ \A k \in DOMAIN queue : queue[k].payload # FailedPayload
     /\ SenderEnqueue(FailedPayload, BackupSpec("c1", AtThree, Conn1))
  \/ WorkerReceive

QueueSpec == SenderInit /\ [][QueueNext]_vars

\* --------------------------------------------- the watcher and its events
\* a label the container does not carry
Absent == "<absent>"

\* the labels of a container, one value or none for each key
Labels(enabled, type, cron, conn, dest) ==
  LET all == [k \in {"backup.enabled", "backup.type", "backup.cron",
                     "backup.conn", "backup.dest"} |->
                CASE k = "backup.enabled" -> enabled
                  [] k = "backup.type" -> type
                  [] k = "backup.cron" -> cron
                  [] k = "backup.conn" -> conn
                  [] k = "backup.dest" -> dest]
  IN Keep(all, {k \in DOMAIN all : all[k] # Absent})

\* backup.enabled true, padded, false, anything else or missing, over labels
\* that make a spec (postgres with either cron, redis without a connection)
\* or should (postgres with the macro @daily)
\* or do not (cron or connection missing, a type that is not known, nothing
\* at all)
WatchLabels ==
  {Labels(enabled, body[1], body[2], body[3], body[4]) :
     enabled \in {"true", " true ", "false", "yes", Absent},
     body \in {<<"postgres", EveryMinute, Conn1, Absent>>,
               <<"postgres", AtThree, Conn1, Absent>>,
               <<"postgres", Daily, Conn1, Absent>>,
               <<"redis", EveryMinute, Absent, Absent>>,
               <<"postgres", Absent, Conn1, Absent>>,
               <<"postgres", EveryMinute, Absent, Absent>>,
               <<"sqlite", EveryMinute, Conn1, Absent>>,
               <<Absent, Absent, Absent, Absent>>}}

\* Docker reports an event of a container that carries these labels; the
\* watcher handles it, and what it saw of the container is kept
DockerEvent(id, action, inspectOk, labels) ==
  /\ HandleEvent(id, action, inspectOk, labels)
  /\ docker' =
       CASE action \in {"start", "create", "update"} /\ inspectOk ->
              [docker EXCEPT ![id] = labels]
         [] action \in {"destroy", "die", "kill", "stop"} ->
              [docker EXCEPT ![id] = NotInspected]
         [] OTHER -> docker
  /\ UNCHANGED containers

WatchNext ==
  \/ \E id \in Ids, action \in {"start", "create", "update"},
        labels \in WatchLabels :
       DockerEvent(id, action, TRUE, labels)
  \/ \E id \in Ids, action \in {"start", "create", "update"} :
       DockerEvent(id, action, FALSE, NoLabels)
  \/ \E id \in Ids : DockerEvent(id, "die", TRUE, NoLabels)

WatchInit == InitWith(0, "")

WatchSpec == WatchInit /\ [][WatchNext]_vars

\* ------------------------------------------------- the retention label
\* values of backup.retention: none, zero, day counts with and without "d",
\* Go durations, negative ones, ones that do not parse, and day counts
\* beyond the 106751 days an int64 of nanoseconds holds
RetentionTexts ==
  {"", "0", "7", "7d", "-5d", "24h", "-1h", "abc", "xd", "200000d",
   "213504d"}

RetentionLabels ==
  {Put(Labels("true", "postgres", EveryMinute, Conn1, Absent),
       "backup.retention", text) : text \in RetentionTexts}
    \cup {Labels("true", "postgres", EveryMinute, Conn1, Absent)}

RetentionNext ==
  \/ \E id \in Ids, labels \in RetentionLabels :
       DockerEvent(id, "start", TRUE, labels)
  \/ \E id \in Ids : DockerEvent(id, "die", TRUE, NoLabels)

RetentionSpec == WatchInit /\ [][RetentionNext]_vars

\* ------------------------------------------------- the sweep of one spec
\* the instants the stored objects were last modified at: a second more than
\* seven days and than one day before the sweep, and exactly seven and one
StoredTimes ==
  {SweepTime - DefaultGlobalRetentionPeriod - 1,
   SweepTime - DefaultGlobalRetentionPeriod,
   SweepTime - 24 * 3600 - 1,
   SweepTime - 24 * 3600}

\* the stores a sweep may find: every key at most once
Stores ==
  {S \in SUBSET [name : StoredKeys, ts : StoredTimes] :
     \A o, p \in S : o.name = p.name => o = p}

\* a Runner made by NewRunner for a spec with some prefix and retention,
\* some global retention and either mode, over some store
GCInit ==
  /\ registry = EmptyMap
  /\ activeJobs = EmptyMap
  /\ closures = EmptyMap
  /\ cronEntries = {}
  /\ nextID = 1
  /\ inv = [e \in EntryIDs |-> IdleInv]
  /\ held = 0
  /\ limit = NewSchedulerLimit(0)
  /\ globalURL = ""
  /\ globalSecret = ""
  /\ maxRetries = DefaultWebhookMaxRetries
  /\ objects \in Stores
  /\ sidecars = EmptyMap
  /\ queue = <<>>
  /\ now = SweepTime
  /\ \E prefix \in {"", "pg"}, retention \in {0 - 3600, 0, 24 * 3600},
        globalRetentionPeriod \in {0, DefaultGlobalRetentionPeriod},
        dryRun \in BOOLEAN :
       gc = NewRunner([BackupSpec("c1", AtThree, Conn1)
                         EXCEPT !.Prefix = prefix, !.Retention = retention],
                      globalRetentionPeriod, dryRun)
  /\ breaker = NewCircuitBreaker(FailureThreshold, RecoveryTimeout)
  /\ worker = IdleWorker
  /\ stop = [closed |-> FALSE, returned |-> FALSE]
  /\ watchLog = NoLog
  /\ docker = [id \in Ids |-> NotInspected]
  /\ ticks = NoTicks
  /\ main = MainLoop
  /\ local = NoDisk
  /\ watcher = NewWatcher
  /\ containers = EmptyMap

GCNext ==
  \/ GCCancel
  \/ GCStart
  \/ \E ok \in BOOLEAN :
       \E order \in Orders(ListObjects(objects, gc.spec.Prefix)) :
         GCList(ok, order)
  \/ \E ok \in BOOLEAN : GCIterate(ok)
  \/ GCReturn

GCSpec == GCInit /\ [][GCNext]_vars

\* ------------------------------------------------------------- shutdown
mainRest ==
  <<registry, schedVars, inv, held, cfgVars, storeVars, queue, now, gc,
    breaker, worker, stop, watchLog, docker, ticks, local, watcher,
    containers>>

\* the process has not crashed
Alive == main.pc # "panicked"

\* case sig := <-sigChan, SIGINT or SIGTERM: cancel() ends the discovery
\* watcher, break Loop
Signal ==
  /\ main.pc = "loop"
  /\ main' = [main EXCEPT !.pc = "cleanup", !.ctxCancelled = TRUE]
  /\ UNCHANGED mainRest

\* after the loop: webhookSender.Stop() closes the queue and waits for the
\* worker
CleanupSenderStop ==
  /\ main.pc = "cleanup"
  /\ SenderStop

\* sched.Stop(): once webhookSender.Stop() has returned, s.cron.Stop() ends
\* the ticks
SchedStop ==
  /\ main.pc = "cleanup"
  /\ stop.returned
  /\ ~main.cronStopped
  /\ main' = [main EXCEPT !.cronStopped = TRUE]
  /\ UNCHANGED mainRest

\* sched.Stop() returns when the running jobs have returned (graceful), or
\* after 10 seconds; then the deferred functions of main run
SchedStopReturn(graceful) ==
  /\ main.pc = "cleanup"
  /\ main.cronStopped
  /\ graceful => \A e \in EntryIDs : ~Running(e)
  /\ main' = [main EXCEPT !.pc = "deferred"]
  /\ UNCHANGED mainRest

\* the deferred gcCron.Stop() and <-gcCronCtx.Done() (no sweep is under way
\* here), then discoveryWatcher.Close(), and main returns
GCCronStop ==
  /\ main.pc = "deferred"
  /\ main' = [main EXCEPT !.pc = "exited", !.gcCronStopped = TRUE]
  /\ UNCHANGED mainRest

\* the steps of a job whose database answers and whose dump is stored; its
\* last step hands the payload to the sender
ShutJobStep(e) ==
  \/ JobGetDumper(e)
  \/ JobTestConnection(e, TRUE)
  \/ JobGetWriter(e, TRUE)
  \/ DumperStart(e)
  \/ DumperClose(e, "ok")
  \/ DumperReturn(e)
  \/ WriterStart(e, TRUE)
  \/ WriterRead(e)
  \/ WriterEOF(e)
  \/ JobWait(e, TRUE)
  \/ ~stop.closed /\ JobNotify(e)
  \/ JobReturn(e)

\* Sender.Enqueue of a job that ends after close(s.queue): the send on the
\* closed channel panics in the goroutine of the job, which nothing recovers
JobNotifyPanics(e) ==
  /\ inv[e].pc = "notify"
  /\ stop.closed
  /\ (IF closures[e].spec.Webhook # "" THEN closures[e].spec.Webhook
      ELSE globalURL) # ""
  /\ main' = [main EXCEPT !.pc = "panicked"]
  /\ UNCHANGED mainRest

\* two containers with jobs, CONCURRENT_BACKUP_LIMIT = LimitInEnv, a webhook
\* URL; the process is told to stop at any time
ShutInit == InitWith(LimitInEnv, WebhookURL)

ShutNext ==
  \/ \E id \in Ids : \E spec \in SchedInputs(id) :
       main.pc = "loop" /\ AddOrUpdateJob(id, spec)
  \/ \E e \in EntryIDs : Alive /\ ~main.cronStopped /\ CronTickRun(e)
  \/ \E e \in EntryIDs : Alive /\ main.pc # "exited" /\ ShutJobStep(e)
  \/ \E e \in EntryIDs : Alive /\ main.pc # "exited" /\ JobNotifyPanics(e)
  \/ Alive /\ main.pc # "exited" /\ WorkerStep
  \/ Signal
  \/ CleanupSenderStop
  \/ Alive /\ StopReturn
  \/ Alive /\ SchedStop
  \/ \E graceful \in BOOLEAN : Alive /\ SchedStopReturn(graceful)
  \/ GCCronStop

ShutSpec == ShutInit /\ [][ShutNext]_vars

\* ------------------------------------------------------------ LocalWriter
\* paths and keys are sequences of characters
BasePath == <<"/", "b">>

\* the working directory of the agent, for filepath.Abs of a relative path
Cwd == <<"/">>

\* filepath.IsAbs on Unix
IsAbs(path) == path # <<>> /\ path[1] = "/"

\* strings.HasPrefix
HasPrefix(str, prefix) ==
  Len(str) >= Len(prefix) /\ SubSeq(str, 1, Len(prefix)) = prefix

\* strings.ReplaceAll(objectName, "\\", "/")
ReplaceBackslash(str) ==
  [i \in 1..Len(str) |-> IF str[i] = "\\" THEN "/" ELSE str[i]]

\* filepath.FromSlash: the separator of the platform is "/" already
FromSlash(str) == [i \in 1..Len(str) |-> IF str[i] = "/" THEN "/" ELSE str[i]]

\* the elements of path between its separators, without the empty ones
RECURSIVE SegmentsFrom(_, _, _)
SegmentsFrom(path, i, cur) ==
  IF i > Len(path)
  THEN IF cur = <<>> THEN <<>> ELSE <<cur>>
  ELSE IF path[i] = "/"
       THEN (IF cur = <<>> THEN <<>> ELSE <<cur>>)
            \o SegmentsFrom(path, i + 1, <<>>)
       ELSE SegmentsFrom(path, i + 1, Append(cur, path[i]))

Segments(path) == SegmentsFrom(path, 1, <<>>)

DotDot == <<".", ".">>

\* filepath.Clean, the elements: "." is dropped, ".." takes back the element
\* before it, is dropped at the root and is kept at the head of a relative
\* path
RECURSIVE CleanFrom(_, _, _)
CleanFrom(segs, rooted, out) ==
  IF segs = <<>> THEN out
  ELSE LET seg == Head(segs)
       IN CleanFrom(Tail(segs), rooted,
            IF seg = <<".">> THEN out
            ELSE IF seg = DotDot
                 THEN IF out # <<>> /\ out[Len(out)] # DotDot
                      THEN SubSeq(out, 1, Len(out) - 1)
                      ELSE IF rooted THEN out ELSE Append(out, seg)
                 ELSE Append(out, seg))

RECURSIVE JoinSegments(_)
JoinSegments(segs) ==
  IF segs = <<>> THEN <<>>
  ELSE IF Len(segs) = 1 THEN Head(segs)
  ELSE Head(segs) \o <<"/">> \o JoinSegments(Tail(segs))

\* filepath.Clean
Clean(path) ==
  LET out == CleanFrom(Segments(path), IsAbs(path), <<>>)
  IN IF IsAbs(path) THEN <<"/">> \o JoinSegments(out)
     ELSE IF out = <<>> THEN <<".">> ELSE JoinSegments(out)

\* filepath.Join of two elements: the empty ones are ignored, the rest is
\* joined with the separator and cleaned
Join(a, b) ==
  IF a = <<>> /\ b = <<>> THEN <<>>
  ELSE IF a = <<>> THEN Clean(b)
  ELSE IF b = <<>> THEN Clean(a)
  ELSE Clean(a \o <<"/">> \o b)

\* filepath.Abs
Abs(path) == IF IsAbs(path) THEN Clean(path) ELSE Join(Cwd, path)

\* the call ended with an error before it touched a file
Refused(op, key) == [op |-> op, key |-> key, err |-> TRUE, path |-> <<>>]

\* LocalWriter.Write: outcome is what the disk does with an accepted write
\* ("noSpace": CheckDiskSpace fails; "copyFailed": io.Copy fails and the
\* partial file is removed); directories are not followed
LocalWrite(objectName, outcome) ==
  LET cleanedObjectName == Clean(ReplaceBackslash(objectName))
      filePath == Join(BasePath, cleanedObjectName)
  IN /\ local' =
          IF outcome = "noSpace" THEN [local EXCEPT !.last =
                                         Refused("Write", objectName)]
          ELSE IF IsAbs(cleanedObjectName)
                  \/ HasPrefix(cleanedObjectName, DotDot)
          THEN [local EXCEPT !.last = Refused("Write", objectName)]
          ELSE IF ~HasPrefix(Abs(filePath), Abs(BasePath))
          THEN [local EXCEPT !.last = Refused("Write", objectName)]
          ELSE IF outcome = "copyFailed"
          THEN [files |-> local.files \ {filePath},
                last |-> [op |-> "Write", key |-> objectName, err |-> TRUE,
                          path |-> filePath]]
          ELSE [files |-> local.files \cup {filePath},
                last |-> [op |-> "Write", key |-> objectName, err |-> FALSE,
                          path |-> filePath]]
     /\ UNCHANGED <<registry, schedVars, inv, held, cfgVars, storeVars, queue,
                    now, gc, breaker, worker, stop, watchLog, docker, ticks,
                    main, watcher, containers>>

\* LocalWriter.ReadObject: os.Open(filePath) once the prefix check has passed
LocalReadObject(objectName) ==
  LET filePath == Join(BasePath, FromSlash(objectName))
  IN /\ local' =
          IF ~HasPrefix(Abs(filePath), Abs(BasePath))
          THEN [local EXCEPT !.last = Refused("ReadObject", objectName)]
          ELSE [local EXCEPT !.last =
                  [op |-> "ReadObject", key |-> objectName,
                   err |-> filePath \notin local.files,
                   path |-> IF filePath \in local.files THEN filePath
                            ELSE <<>>]]
     /\ UNCHANGED <<registry, schedVars, inv, held, cfgVars, storeVars, queue,
                    now, gc, breaker, worker, stop, watchLog, docker, ticks,
                    main, watcher, containers>>

\* LocalWriter.DeleteObject: os.Remove(filePath) once the prefix check has
\* passed; a file that is not there counts as deleted
LocalDeleteObject(key) ==
  LET filePath == Join(BasePath, FromSlash(key))
  IN /\ local' =
          IF ~HasPrefix(Abs(filePath), Abs(BasePath))
          THEN [local EXCEPT !.last = Refused("DeleteObject", key)]
          ELSE [files |-> local.files \ {filePath},
                last |-> [op |-> "DeleteObject", key |-> key, err |-> FALSE,
                          path |-> IF filePath \in local.files THEN filePath
                                   ELSE <<>>]]
     /\ UNCHANGED <<registry, schedVars, inv, held, cfgVars, storeVars, queue,
                    now, gc, breaker, worker, stop, watchLog, docker, ticks,
                    main, watcher, containers>>

\* files that are on the disk outside the base directory: one in the sibling
\* directory /bx, one at the root
OutsideFiles == {<<"/", "b", "x", "/", "f">>, <<"/", "e">>}

\* the keys the writer is called with: f, g, d/../f, /e, ../e, ../bx/f,
\* ..\e
LocalKeys ==
  {<<"f">>, <<"g">>, <<"d", "/", ".", ".", "/", "f">>, <<"/", "e">>,
   <<".", ".", "/", "e">>, <<".", ".", "/", "b", "x", "/", "f">>,
   <<".", ".", "\\", "e">>}

\* a LocalWriter on BasePath, with or without a backup f in it
LocalInit ==
  \E inside \in SUBSET {<<"/", "b", "/", "f">>} :
    InitAs(0, "", "", MainLoop,
           [files |-> OutsideFiles \cup inside, last |-> NoCall])

LocalNext ==
  \/ \E key \in LocalKeys, outcome \in {"ok", "noSpace", "copyFailed"} :
       LocalWrite(key, outcome)
  \/ \E key \in LocalKeys : LocalReadObject(key)
  \/ \E key \in LocalKeys : LocalDeleteObject(key)

LocalSpec == LocalInit /\ [][LocalNext]_vars

\* ------------------------------------------------- main, its configuration
DefaultLocalPath == "/backups"

\* loadGlobalConfig: of the variables followed here only LOCAL_BACKUP_PATH
\* gets a key in the map (BUCKET_NAME and the other S3 variables are unset)
loadGlobalConfig(env) ==
  [k \in {"LOCAL_BACKUP_PATH"} |->
     IF env.LOCAL_BACKUP_PATH # "" THEN env.LOCAL_BACKUP_PATH
     ELSE DefaultLocalPath]

\* globalConfig[key] of a Go map: "" for a key that is not there
ConfigGet(cfg, key) == IF key \in DOMAIN cfg THEN cfg[key] ELSE ""

\* validateConfig on the keys followed here: a CONCURRENT_BACKUP_LIMIT that
\* is in the map and not empty must be a positive integer
validateConfig(cfg) ==
  LET limitStr == ConfigGet(cfg, "CONCURRENT_BACKUP_LIMIT")
  IN ~ /\ "CONCURRENT_BACKUP_LIMIT" \in DOMAIN cfg
       /\ limitStr # ""
       /\ (~Atoi(limitStr).ok \/ Atoi(limitStr).n <= 0)

\* NewScheduler: strconv.Atoi of globalCfg["CONCURRENT_BACKUP_LIMIT"] when the
\* key is there and not empty (0 stands for no usable value)
ConfigLimit(cfg) ==
  LET limitStr == ConfigGet(cfg, "CONCURRENT_BACKUP_LIMIT")
  IN IF "CONCURRENT_BACKUP_LIMIT" \in DOMAIN cfg /\ limitStr # ""
        /\ Atoi(limitStr).ok
     THEN Atoi(limitStr).n ELSE 0

\* Sighup as it would be if the reload rebuilt the registry as well
SighupDropsRegistry ==
  LET newConfig == loadGlobalConfig(main.env)
  IN /\ main.pc = "loop"
     /\ main.reloads < MaxReloads
     /\ \A e \in EntryIDs : ~Running(e)
     /\ queue = <<>> /\ worker = IdleWorker
     /\ validateConfig(newConfig)
     /\ registry' = EmptyMap
     /\ stop' = [closed |-> FALSE, returned |-> FALSE]
     /\ worker' = IdleWorker
     /\ breaker' = NewCircuitBreaker(FailureThreshold, RecoveryTimeout)
     /\ queue' = <<>>
     /\ globalURL' = ConfigGet(newConfig, "WEBHOOK_URL")
     /\ globalSecret' = ConfigGet(newConfig, "WEBHOOK_SECRET")
     /\ maxRetries' = DefaultWebhookMaxRetries
     /\ activeJobs' = EmptyMap
     /\ closures' = EmptyMap
     /\ cronEntries' = {}
     /\ nextID' = 1
     /\ limit' = NewSchedulerLimit(ConfigLimit(newConfig))
     /\ held' = 0
     /\ ticks' = NoTicks
     /\ main' = [main EXCEPT !.reloads = @ + 1]
     /\ UNCHANGED <<inv, storeVars, now, gc, watchLog, docker, local, watcher,
                    containers>>

\* case syscall.SIGHUP with a configuration that validates:
\* webhookSender.Stop() and sched.Stop() (taken when the queue is drained and
\* no job is running, so that both return at once; runs that outlive the
\* grace of sched.Stop are not followed), then webhook.NewSender(newConfig)
\* and scheduler.NewScheduler(newConfig, ...); discoveryWatcher is kept
Sighup ==
  LET newConfig == loadGlobalConfig(main.env)
  IN /\ main.pc = "loop"
     /\ main.reloads < MaxReloads
     /\ \A e \in EntryIDs : ~Running(e)
     /\ queue = <<>> /\ worker = IdleWorker
     /\ validateConfig(newConfig)
     /\ stop' = [closed |-> FALSE, returned |-> FALSE]
     /\ worker' = IdleWorker
     /\ breaker' = NewCircuitBreaker(FailureThreshold, RecoveryTimeout)
     /\ queue' = <<>>
     /\ globalURL' = ConfigGet(newConfig, "WEBHOOK_URL")
     /\ globalSecret' = ConfigGet(newConfig, "WEBHOOK_SECRET")
     /\ maxRetries' = DefaultWebhookMaxRetries
     /\ activeJobs' = EmptyMap
     /\ closures' = EmptyMap
     /\ cronEntries' = {}
     /\ nextID' = 1
     /\ limit' = NewSchedulerLimit(ConfigLimit(newConfig))
     /\ held' = 0
     /\ ticks' = NoTicks
     /\ main' = [main EXCEPT !.reloads = @ + 1]
     /\ UNCHANGED <<registry, inv, storeVars, now, gc, watchLog, docker,
                    local, watcher, containers>>

\* the environments the agent is started in
Envs ==
  {NoEnv, Env("1", WebhookURL, "s3cret"), Env("abc", WebhookURL, "")}

\* main up to its loop: loadGlobalConfig, validateConfig, NewSender,
\* NewScheduler
ProgInit ==
  \E env \in Envs :
    LET cfg == loadGlobalConfig(env)
    IN /\ validateConfig(cfg)
       /\ InitAs(ConfigLimit(cfg), ConfigGet(cfg, "WEBHOOK_URL"),
                 ConfigGet(cfg, "WEBHOOK_SECRET"),
                 [MainLoop EXCEPT !.env = env], NoDisk)

ProgLabels ==
  {LabelsOn("postgres", EveryMinute, Conn1),
   LabelsOn("postgres", BadMinute, Conn1)}

\* containers start and die, the main loop reconciles and reloads, the jobs
\* run
ProgNext ==
  \/ \E id \in Ids, labels \in ProgLabels :
       DockerEvent(id, "start", TRUE, labels)
  \/ \E id \in Ids : DockerEvent(id, "die", TRUE, NoLabels)
  \/ ReconcileTick
  \/ Sighup
  \/ \E e \in EntryIDs : CronTickRun(e)
  \/ \E e \in EntryIDs : PlainStep(e)

ProgSpec == ProgInit /\ [][ProgNext]_vars

\* case syscall.SIGHUP while jobs are running that outlive the 10 seconds
\* sched.Stop() waits after s.cron.Stop(): Stop logs the timeout and
\* returns, the new sender and the new scheduler, with its own semaphore, are
\* built, and the runs of the old scheduler go on (oldJobs counts them; they
\* are followed only until they return)
SighupTimesOut ==
  LET newConfig == loadGlobalConfig(main.env)
  IN /\ main.pc = "loop"
     /\ main.reloads < MaxReloads
     /\ \E e \in EntryIDs : Running(e)
     /\ queue = <<>> /\ worker = IdleWorker
     /\ validateConfig(newConfig)
     /\ now + 10 <= MaxClock
     /\ now' = now + 10
     /\ stop' = [closed |-> FALSE, returned |-> FALSE]
     /\ worker' = IdleWorker
     /\ breaker' = NewCircuitBreaker(FailureThreshold, RecoveryTimeout)
     /\ queue' = <<>>
     /\ globalURL' = ConfigGet(newConfig, "WEBHOOK_URL")
     /\ globalSecret' = ConfigGet(newConfig, "WEBHOOK_SECRET")
     /\ maxRetries' = DefaultWebhookMaxRetries
     /\ activeJobs' = EmptyMap
     /\ closures' = EmptyMap
     /\ cronEntries' = {}
     /\ nextID' = 1
     /\ limit' = NewSchedulerLimit(ConfigLimit(newConfig))
     /\ held' = 0
     /\ ticks' = NoTicks
     /\ inv' = [e \in EntryIDs |-> IdleInv]
     /\ main' = [main EXCEPT
                   !.reloads = @ + 1,
                   !.oldJobs = @ + Cardinality({e \in EntryIDs : Running(e)})]
     /\ UNCHANGED <<registry, storeVars, gc, watchLog, docker, local, watcher,
                    containers>>

\* a run the old scheduler started returns
OldJobReturn ==
  /\ main.oldJobs > 0
  /\ main' = [main EXCEPT !.oldJobs = @ - 1]
  /\ UNCHANGED mainRest

\* one kind of container, the reconciler, the jobs, and reloads at any time
SwapNext ==
  \/ \E id \in Ids :
       DockerEvent(id, "start", TRUE, LabelsOn("postgres", EveryMinute, Conn1))
  \/ ReconcileTick
  \/ \E e \in EntryIDs : CronTickRun(e)
  \/ \E e \in EntryIDs : PlainStep(e)
  \/ Sighup
  \/ SighupTimesOut
  \/ OldJobReturn

SwapSpec == ProgInit /\ [][SwapNext]_vars

\* the same without the jobs: discovery, the reconciler and the reload
ReloadNext ==
  \/ \E id \in Ids, labels \in ProgLabels :
       DockerEvent(id, "start", TRUE, labels)
  \/ \E id \in Ids : DockerEvent(id, "die", TRUE, NoLabels)
  \/ ReconcileTick
  \/ Sighup

ReloadSpec == ProgInit /\ [][ReloadNext]_vars

\* the labels of a container that names its own webhook
HookLabels ==
  Put(LabelsOn("postgres", EveryMinute, Conn1), "backup.webhook", WebhookURL)

\* one such container, its job and the worker of the sender (which is not
\* stopped here)
HookNext ==
  \/ DockerEvent("c1", "start", TRUE, HookLabels)
  \/ ReconcileTick
  \/ \E e \in EntryIDs : CronTickRun(e)
  \/ \E e \in EntryIDs : PlainStep(e)
  \/ WorkerSelect
  \/ BreakerCall
  \/ \E ok \in BOOLEAN : SendAttempt(ok)

HookSpec == ProgInit /\ [][HookNext]_vars

\* ----------------------------------------------------------- the program
\* containers come, change their labels and go; the main loop reconciles; the
\* environment sets neither CONCURRENT_BACKUP_LIMIT nor WEBHOOK_URL
Init == InitWith(0, "")

LabelInputs(id) ==
  IF id = "c1"
  THEN {LabelsOn("postgres", EveryMinute, Conn1),
        LabelsOn("Postgres", " " \o EveryMinute, Conn2),
        LabelsOn("postgres", AtThree, Conn1),
        LabelsOn("postgres", Daily, Conn1),
        LabelsOff, NoLabels}
  ELSE {LabelsOn("postgres", AtThree, Conn2)}

Next ==
  \/ \E id \in Ids : \E action \in {"start", "stop"} :
       \E inspectOk \in BOOLEAN : \E labels \in LabelInputs(id) :
         HandleEvent(id, action, inspectOk, labels)
         /\ UNCHANGED <<docker, containers>>
  \/ ReconcileTick
  \/ \E e \in EntryIDs : CronTickSkipRunning(e)
  \/ \E e \in EntryIDs : CronTickRun(e)
  \/ \E e \in EntryIDs : PlainStep(e)

Spec == Init /\ [][Next]_vars

\* ------------------------------------------------------------ properties
\* the runs of container id that are executing
RunsOf(id) == {e \in EntryIDs : Running(e) /\ closures[e].containerID = id}

\* what Enqueue puts on the queue for a payload when WEBHOOK_URL is set
QueuedItem(payload) ==
  [payload |-> payload, targetURL |-> WebhookURL, secret |-> ""]

ConnTestFailed == "Database connection test failed"

\* C1: for every container-id at most one job invocation is executing at any
\* instant, whatever AddOrUpdateJob calls (same or changed cron), RemoveJob
\* calls and cron ticks came before
C1_OneRunPerContainer == \A id \in Ids : Cardinality(RunsOf(id)) <= 1

\* C2: with concurrency limit N, never more than N invocations are between
\* their try-acquire of the semaphore and its release
C2_SemaphoreBound ==
  /\ Cardinality({e \in EntryIDs : Running(e)}) <= limit
  /\ held = Cardinality({e \in EntryIDs : Running(e)})

\* the semaphore is full while another entry is due
C2_Witness ==
  /\ held = limit
  /\ \E e \in cronEntries : ~Running(e)

\* C3: a reconciler tick leaves no job and no cron entry for a container-id
\* that is not in the registry, so that no later cron match starts a job for
\* it
C3_ReconcileRemoves ==
  [][ReconcileTick =>
       \A id \in Ids \ DOMAIN registry :
         /\ id \notin DOMAIN activeJobs'
         /\ \A e \in cronEntries' : closures'[e].containerID # id]_vars

\* C4: every invocation that acquired the semaphore eventually returns
\* (both goroutines joined, the slot released), whatever fails or expires
C4_EveryRunReturns == \A e \in EntryIDs : Running(e) ~> ~Running(e)

\* C5: when TestConnection fails the invocation writes no object and no
\* sidecar, enqueues exactly one notification with success=false and a
\* non-empty error, releases its slot, and the entry stays on the schedule
\* with the same captured spec
C5_ConnectionFailure ==
  [][\A e \in EntryIDs :
       /\ (inv[e].pc \in {"idle", "getDumper"} /\ inv'[e] # inv[e])
            => storeVars' = storeVars
       /\ (inv[e].pc = "testConnection" /\ inv'[e].pc = "return")
            => /\ storeVars' = storeVars
               /\ inv'[e].objectName = NoObject
               /\ inv'[e].enqueued = 1
               /\ ~inv'[e].payload.Success
               /\ inv'[e].payload.Error # ""
               /\ queue' = Append(queue, QueuedItem(inv'[e].payload))
       /\ (inv[e].pc = "return" /\ inv[e].payload.Error = ConnTestFailed
             /\ inv'[e] # inv[e])
            => /\ inv'[e] = IdleInv
               /\ held' = held - 1
               /\ storeVars' = storeVars
               /\ queue' = queue
               /\ activeJobs' = activeJobs
               /\ cronEntries' = cronEntries
               /\ (e \in cronEntries => closures'[e] = closures[e])]_vars

\* an invocation whose connection test failed is about to return, its
\* notification waiting in the queue, its entry still on the schedule
C5_Witness ==
  \E e \in cronEntries :
    /\ inv[e].pc = "return"
    /\ inv[e].payload.Error = ConnTestFailed
    /\ queue = <<QueuedItem(inv[e].payload)>>

\* C6: a sidecar is written only after the primary write has returned, and
\* only by an invocation with no dump error, no write error and
\* bytesWritten > 0
C6_SidecarOnlyAfterSuccess ==
  [][(sidecars' # sidecars
        \/ \E e \in EntryIDs : inv'[e].metadata = "written"
                                 /\ inv[e].metadata # "written")
       => \E e \in EntryIDs :
            /\ inv[e].pc = "pipe"
            /\ inv[e].wpc = "done"
            /\ inv[e].dpc = "done"
            /\ ~inv[e].dumpErr
            /\ ~inv[e].writeErr
            /\ inv[e].bytesWritten > 0
            /\ inv'[e].metadata = "written"
            /\ sidecars' = Put(sidecars, inv[e].objectName,
                               BackupMetadata(inv[e], TRUE))]_vars

\* an invocation has written its sidecar
C6_Witness ==
  \E e \in EntryIDs :
    /\ inv[e].metadata = "written"
    /\ inv[e].objectName \in DOMAIN sidecars

\* C7: when an invocation reported successful returns, a sidecar exists at
\* its key whose size and checksum are those the primary write returned
C7_SuccessHasSidecar ==
  \A e \in EntryIDs :
    (inv[e].pc = "return" /\ inv[e].payload.Success)
      => /\ inv[e].objectName \in DOMAIN sidecars
         /\ sidecars[inv[e].objectName].BackupSize = inv[e].bytesWritten
         /\ sidecars[inv[e].objectName].Checksum = inv[e].checksum

\* C8: an invocation is reported successful exactly when the dumper returned
\* no error, the writer returned no error and bytesWritten > 0
C8_SuccessIff ==
  \A e \in EntryIDs :
    inv[e].pc \in {"notify", "return"}
      => (inv[e].payload.Success
            <=> (/\ inv[e].dpc = "done" /\ ~inv[e].dumpErr
                 /\ inv[e].wpc = "done" /\ ~inv[e].writeErr
                 /\ inv[e].bytesWritten > 0))

\* a successful invocation is about to notify
C8_Witness ==
  \E e \in EntryIDs :
    /\ inv[e].pc = "notify"
    /\ inv[e].payload.Success
    /\ inv[e].bytesWritten > 0

\* C9: an invocation that passed the semaphore enqueues exactly one
\* NotificationPayload before it returns, on every exit path; nothing else
\* (a skipped tick, the start of a run) adds to the queue
C9_ExactlyOneNotification ==
  [][/\ \A e \in EntryIDs :
          /\ (~Running(e) /\ inv'[e] # inv[e])
               => inv'[e].enqueued = 0 /\ queue' = queue
          /\ (Running(e) /\ inv[e].pc # "return" /\ inv'[e].pc = "return")
               => /\ inv[e].enqueued = 0
                  /\ inv'[e].enqueued = 1
                  /\ queue' = Append(queue, QueuedItem(inv'[e].payload))
          /\ (inv[e].pc = "return" /\ inv'[e] # inv[e])
               => /\ inv[e].enqueued = 1
                  /\ inv'[e] = IdleInv
                  /\ queue' = queue
          /\ (Running(e) /\ inv'[e] # inv[e]) => inv'[e].pc # "getDumper"
     /\ Len(queue') > Len(queue)
          => \E e \in EntryIDs :
               Running(e) /\ inv[e].pc # "return" /\ inv'[e].pc = "return"]_vars

\* a failed pipeline has enqueued its one notification while another entry
\* is on the schedule, whose ticks the concurrency limit skips
C9_Witness ==
  \E e \in EntryIDs :
    /\ inv[e].pc = "return"
    /\ inv[e].wpc = "done"
    /\ inv[e].enqueued = 1
    /\ queue # <<>>
    /\ \E other \in cronEntries : other # e /\ held >= limit

\* C10: after AddOrUpdateJob(id, spec') with an unchanged cron, the next
\* invocation of id runs with spec', the spec the job table holds
C10_NextRunUsesStoredSpec ==
  [][\A e \in EntryIDs :
       CronTickRun(e) =>
         \A id \in DOMAIN activeJobs :
           activeJobs[id].cronID = e => closures[e].spec = activeJobs[id].spec]_vars

\* ------------------------------------------------------- garbage collection
\* the keys RunGC called DeleteObject for
DeletedKeys == {gc.deleteCalls[k] : k \in DOMAIN gc.deleteCalls}

\* the retention the runner is to work with: that of the spec when it is
\* positive, else the global default
RetentionOf(runner) ==
  IF runner.spec.Retention > 0 THEN runner.spec.Retention
  ELSE runner.globalRetentionPeriod

\* C11: a RunGC that is not a dry run and was not cancelled has called
\* DeleteObject for a listed object exactly when the object was last
\* modified strictly before now minus the effective retention (that of the
\* spec when positive, else the global default), and for no other key; with
\* an effective retention of zero or less it has listed and deleted nothing
C11_DeletesExactlyExpired ==
  (gc.pc = "done" /\ ~gc.dryRun /\ ~gc.cancelled) =>
     /\ \A k \in DOMAIN gc.objects :
          gc.objects[k].name \in DeletedKeys
            <=> gc.objects[k].ts < now - RetentionOf(gc)
     /\ \A key \in DeletedKeys :
          \E k \in DOMAIN gc.objects : gc.objects[k].name = key
     /\ RetentionOf(gc) <= 0 => (gc.listCalls = 0 /\ gc.deleteCalls = <<>>)

\* a sweep under the retention of its spec has returned, having deleted an
\* object a second older than the retention and kept one exactly as old
C11_Witness ==
  /\ gc.pc = "done" /\ ~gc.dryRun /\ ~gc.cancelled
  /\ gc.spec.Retention > 0
  /\ gc.spec.Retention < gc.globalRetentionPeriod
  /\ \E k, l \in DOMAIN gc.objects :
       /\ gc.objects[k].ts = now - gc.spec.Retention - 1
       /\ gc.objects[k].name \in DeletedKeys
       /\ gc.objects[k] \notin objects
       /\ gc.objects[l].ts = now - gc.spec.Retention
       /\ gc.objects[l] \in objects

AllExpiredAttempted ==
  \A k \in DOMAIN gc.objects :
    gc.objects[k].ts < gc.cutoffDate => gc.objects[k].name \in DeletedKeys

SendEnds == worker.pc = "send" /\ worker'.pc = "select"

\* this step is the breaker's answer to the call for the item in the
\* worker's hands
CallAnswered == worker.pc = "call" /\ worker'.pc # "call"

\* C14: the send whose failure is the fifth in a row, each after its last
\* retry, leaves the breaker Open; and a send that reaches the open breaker
\* before the recovery timeout has passed since the last failure is
\* short-circuited: it makes no HTTP request and changes nothing in the
\* breaker
C14_OpenShortCircuits ==
  [][/\ (SendEnds /\ worker'.outcome = "failed"
           /\ breaker.state = "Closed" /\ breaker.failureCount + 1 >= 5)
          => (breaker'.state = "Open" /\ worker.requests = DefaultWebhookMaxRetries)
     /\ (CallAnswered /\ breaker.state = "Open"
           /\ now - breaker.lastFailureTime < breaker.recoveryTimeout)
          => /\ worker'.pc = "select"
             /\ worker'.outcome = "open"
             /\ worker'.requests = 0
             /\ breaker' = breaker]_vars

\* the fifth failure in a row opened the breaker, and a send that came 270
\* seconds later was short-circuited without a request
C14_Witness ==
  /\ breaker.state = "Open"
  /\ breaker.failureCount = 5
  /\ now - breaker.lastFailureTime = RecoveryTimeout - 30
  /\ worker.outcome = "open"
  /\ worker.requests = 0
  /\ worker.pc = "select"

\* C15: the breaker is a machine of three states. Closed: a send that
\* succeeds sets the counter to 0, one that fails adds 1 to it and opens the
\* breaker when the counter reaches the threshold. HalfOpen is entered only
\* from Open and only once the recovery timeout has passed since the last
\* failure; while it lasts the worker is busy with the one trial send, whose
\* success closes the breaker with counter 0 and whose failure opens it
\* again. Open is left only for HalfOpen. Nothing else changes the breaker.
C15_ThreeStates ==
  [][/\ (breaker.state = "Closed" /\ SendEnds /\ worker'.outcome = "sent")
          => (breaker'.state = "Closed" /\ breaker'.failureCount = 0)
     /\ (breaker.state = "Closed" /\ SendEnds /\ worker'.outcome = "failed")
          => /\ breaker'.failureCount = breaker.failureCount + 1
             /\ breaker'.state =
                  IF breaker.failureCount + 1 >= breaker.failureThreshold
                  THEN "Open" ELSE "Closed"
     /\ (breaker'.state = "HalfOpen" /\ breaker.state # "HalfOpen")
          => /\ breaker.state = "Open"
             /\ now - breaker.lastFailureTime >= breaker.recoveryTimeout
     /\ breaker.state = "HalfOpen"
          => /\ worker.pc = "send"
             /\ worker'.item # worker.item => SendEnds
             /\ SendEnds =>
                  \/ (worker'.outcome = "sent" /\ breaker'.state = "Closed"
                        /\ breaker'.failureCount = 0)
                  \/ (worker'.outcome = "failed" /\ breaker'.state = "Open")
             /\ ~SendEnds => breaker' = breaker
     /\ breaker.state = "Open" => breaker'.state \in {"Open", "HalfOpen"}
     /\ breaker' # breaker => (SendEnds \/ CallAnswered)]_vars

\* the trial after a failed trial: the breaker is half-open for the second
\* time, the worker busy with the trial send
C15_Witness ==
  /\ breaker.state = "HalfOpen"
  /\ breaker.failureCount = 6
  /\ worker.pc = "send"
  /\ worker.requests > 0

\* C16: a send that reaches the open breaker 30 seconds or more after the
\* last failure is let through as the half-open trial
C16_TrialAfterThirtySeconds ==
  [][(CallAnswered /\ breaker.state = "Open"
        /\ now - breaker.lastFailureTime >= 30)
       => (breaker'.state = "HalfOpen" /\ worker'.pc = "send")]_vars

\* ------------------------------------------------------ the sender's queue
\* C17: Enqueue can always be taken, the queue never holds more than 100
\* items, and an Enqueue that finds 100 items queued leaves the queue, its
\* items and their order, as it was; one that finds fewer appends its item
C17_EnqueueNeverBlocks ==
  /\ [](Len(queue) <= 100)
  /\ [](\A payload \in {SentPayload, FailedPayload} :
          ENABLED SenderEnqueue(payload, BackupSpec("c1", AtThree, Conn1)))
  /\ [][\A payload \in {SentPayload, FailedPayload} :
          SenderEnqueue(payload, BackupSpec("c1", AtThree, Conn1)) =>
            IF Len(queue) >= 100 THEN queue' = queue
            ELSE queue' = Append(queue, QueuedItem(payload))]_vars

\* the queue is full, a failure at its head and successes behind it, and
\* Enqueue is enabled for one more payload
C17_Witness ==
  /\ Len(queue) = QueueCapacity
  /\ queue[1].payload = FailedPayload
  /\ queue[QueueCapacity].payload = SentPayload
  /\ ENABLED SenderEnqueue(SentPayload, BackupSpec("c1", AtThree, Conn1))

\* C18: once Stop has closed the queue, an item leaves the queue only into
\* the hands of the worker, which puts it down only sent, failed after its
\* retries or short-circuited; Stop has returned only with the queue empty
\* and the worker gone, nothing in its hands; and Stop does return
C18_StopDrains ==
  /\ [](stop.returned =>
          (queue = <<>> /\ worker.pc = "exited" /\ worker.item = NoItem))
  /\ [][(stop.closed /\ queue' # queue) =>
          (queue # <<>> /\ queue' = Tail(queue)
             /\ worker'.item = Head(queue) /\ worker'.pc = "call")]_vars
  /\ [][(worker.item # NoItem /\ worker'.item # worker.item) =>
          (worker'.pc = "select"
             /\ worker'.outcome \in {"sent", "failed", "open"})]_vars
  /\ [][worker'.pc = "exited" => (stop.closed /\ queue = <<>>)]_vars
  /\ (stop.closed ~> stop.returned)

\* Stop has closed the queue and waits: the worker is sending one item,
\* another, enqueued before Stop, is still queued
C18_Witness ==
  /\ stop.closed
  /\ ~stop.returned
  /\ worker.pc = "send"
  /\ queue # <<>>

\* ------------------------------------------------------------ the registry
\* the containers the watcher has inspected and not seen go since
InspectedIds == {id \in Ids : docker[id] # NotInspected}

C20_NoStaleSpec ==
  \A id \in InspectedIds :
    id \in DOMAIN registry =>
      /\ parseLabels(docker[id], id).ok
      /\ registry[id] = parseLabels(docker[id], id).spec

\* C21: an inspected container with backup.enabled "true", a macro for its
\* cron, a known type and a connection is in the registry, with that cron
C21_MacroRegistered ==
  \A id \in InspectedIds :
    (/\ {"backup.enabled", "backup.cron", "backup.type", "backup.conn"}
          \subseteq DOMAIN docker[id]
     /\ "backup.dest" \notin DOMAIN docker[id]
     /\ docker[id]["backup.enabled"] = "true"
     /\ IsMacro(docker[id]["backup.cron"])
     /\ docker[id]["backup.type"] \in DumperTypes)
      => /\ id \in DOMAIN registry
         /\ registry[id].Cron = docker[id]["backup.cron"]

\* C22: the labels of an inspected container make a spec exactly when
\* backup.enabled is "true", backup.cron is not empty, backup.type is one of
\* postgres, mysql, mongodb and redis, and backup.conn is not empty unless
\* the type is redis (every value read with the white space around it off)
C22_ParseLabelsIff ==
  \A id \in InspectedIds :
    parseLabels(docker[id], id).ok
      <=> /\ GetLabel(docker[id], "backup.enabled", "") = "true"
          /\ GetLabel(docker[id], "backup.cron", "") # ""
          /\ ToLower(GetLabel(docker[id], "backup.type", ""))
               \in {"postgres", "mysql", "mongodb", "redis"}
          /\ \/ GetLabel(docker[id], "backup.conn", "") # ""
             \/ ToLower(GetLabel(docker[id], "backup.type", "")) = "redis"

\* C23: the retention of every registered spec is at least 0: it is 0 for a
\* label that is missing, empty, "0", negative or does not parse, seven days
\* for "7" and "7d", and not negative for any day count
C23_RetentionNotNegative ==
  \A id \in DOMAIN registry :
    /\ registry[id].Retention >= 0
    /\ id \in InspectedIds =>
         LET text == GetLabel(docker[id], "backup.retention", "")
         IN /\ text \in {"", "0", "-5d", "-1h", "abc", "xd"}
                 => registry[id].Retention = 0
            /\ text \in {"7", "7d"}
                 => registry[id].Retention = 7 * 24 * 3600

\* C24: when the specs outnumber the concurrency limit, every entry whose tick
\* was skipped because the semaphore was full later gets a tick that takes
\* the semaphore (or leaves the schedule): none is skipped forever
C24_SkippedEventuallyRuns ==
  \A e \in EntryIDs :
    (e \in cronEntries /\ ticks[e] = "limit")
      ~> (ticks[e] = "ran" \/ e \notin cronEntries)

\* C25: a tick skipped because the run of the same entry has not returned, or
\* because the semaphore is full, is dropped: the step that skips it starts
\* nothing and leaves nothing waiting, and a run of the entry begins only in
\* a tick of the entry that finds the semaphore free
C25_SkippedTickDropped ==
  [][\A e \in EntryIDs :
       /\ (ticks'[e] # ticks[e] /\ ticks'[e] \in {"running", "limit"})
            => /\ inv' = inv
               /\ held' = held
               /\ queue' = queue
       /\ (~Running(e) /\ Running(e)')
            => /\ ticks'[e] = "ran"
               /\ e \in cronEntries
               /\ held < limit
               /\ held' = held + 1]_vars

\* an entry whose last tick was skipped for the full semaphore is idle
\* although the semaphore is free again
C25_Witness ==
  \E e \in cronEntries :
    /\ ticks[e] = "limit"
    /\ ~Running(e)
    /\ held < limit

\* C26: on SIGINT or SIGTERM the scheduler is stopped before the queue of the
\* notifier is closed, and the GC cron before it as well
C26_SchedulerStoppedBeforeNotifier ==
  (main.ctxCancelled /\ stop.closed)
    => (main.cronStopped /\ main.gcCronStopped)

\* C27: a SIGHUP reload leaves the registry and what the watcher knows of the
\* containers as they are, and the first reconciler tick on the scheduler
\* the reload built gives it a job, with a cron entry, for every registry
\* spec whose cron expression parses
C27_ReloadKeepsRegistry ==
  [][/\ Sighup => /\ registry' = registry
                  /\ docker' = docker
                  /\ watchLog' = watchLog
     /\ (main.reloads > 0 /\ nextID = 1 /\ ReconcileTick)
          => \A id \in DOMAIN registry :
               CronParses(CronSpecToUse(registry[id].Cron))
                 => /\ id \in DOMAIN activeJobs'
                    /\ activeJobs'[id].spec = registry[id]
                    /\ activeJobs'[id].cronID \in cronEntries']_vars

\* after a reload the rebuilt scheduler has got its jobs back from the
\* registry the reload left alone
C27_Witness ==
  /\ main.reloads > 0
  /\ registry # EmptyMap
  /\ \E id \in DOMAIN registry : id \in DOMAIN activeJobs

\* C29: with CONCURRENT_BACKUP_LIMIT set to a positive integer k no more
\* than k jobs run at once, at startup and after a reload; unset or not a
\* positive integer, the limit is 20
C29_LimitFromEnv ==
  LET k == Atoi(main.env.CONCURRENT_BACKUP_LIMIT)
  IN IF k.ok /\ k.n > 0
     THEN held <= k.n
     ELSE limit = DefaultConcurrencyLimit

\* the elements of path begin with the elements of dir: path is dir or lies
\* below it
Descendant(path, dir) ==
  LET p == Segments(path)
      d == Segments(dir)
  IN Len(p) >= Len(d) /\ SubSeq(p, 1, Len(d)) = d

\* C28: Write, ReadObject and DeleteObject called with a key that resolves
\* outside the base directory fail, and no file outside the base directory
\* is created, read or removed
C28_NoEscape ==
  /\ (local.last.op # "none"
        /\ ~Descendant(Abs(Join(BasePath, local.last.key)), BasePath))
       => (local.last.err /\ local.last.path = <<>>)
  /\ {f \in local.files : ~Descendant(f, BasePath)} = OutsideFiles

\* C30: with WEBHOOK_SECRET set in the environment every request the sender
\* builds carries the hex HMAC-SHA-256, keyed with that secret, of the bytes
\* of its body; without a secret it carries no signature header
C30_SignedWithEnvSecret ==
  worker.request # NoRequest
    => worker.request.signature =
         IF main.env.WEBHOOK_SECRET # ""
         THEN HexEncode(HmacSha256(main.env.WEBHOOK_SECRET,
                                   worker.request.body))
         ELSE NoRequest.signature

\* C31: the key of an object is <prefix>/<type>-<db>, then the timestamp and
\* .dump.gz; the prefix part is left out for an empty prefix, <db> is
\* spec.Database when that is set, and the key of a redis spec with neither
\* database nor connection string starts with redis-default
C31_ObjectNameLayout ==
  \A e \in EntryIDs :
    inv[e].objectName # NoObject =>
      LET spec == closures[e].spec
          head == IF spec.Prefix = "" THEN ""
                  ELSE TrimSlashes(spec.Prefix) \o "/"
      IN /\ spec.Database \in {"mydb", "testdb"}
              => inv[e].objectName.name
                   = head \o spec.Type \o "-" \o spec.Database
         /\ (spec.Type = "redis" /\ spec.Database = "" /\ spec.Conn = "")
              => inv[e].objectName.name = head \o "redis-default"

\* C32: every entry of the job table holds the handle of a live cron entry,
\* and every live cron entry is the handle of exactly one entry of the job
\* table, also after an AddOrUpdateJob whose new expression does not parse
C32_JobTableMatchesCron ==
  /\ \A id \in DOMAIN activeJobs : activeJobs[id].cronID \in cronEntries
  /\ \A e \in cronEntries :
       Cardinality({id \in DOMAIN activeJobs : activeJobs[id].cronID = e}) = 1

\* the registries the reconciler may find: each container absent or with one
\* of its specs
Registries ==
  UNION {[D -> UNION {SchedInputs(id) : id \in Ids}] : D \in SUBSET Ids}

\* C33: a second AddOrUpdateJob with the same container-id and the same spec
\* leaves the scheduler (job table, cron entries, handles) as the first call
\* left it, and so does a second reconciler tick over an unchanged registry
C33_AddOrUpdateIdempotent ==
  /\ \A id \in Ids : \A spec \in SchedInputs(id) :
       LET once == AddOrUpdateJobOn(SchedState, id, spec)
       IN AddOrUpdateJobOn(once, id, spec) = once
  /\ \A reg \in Registries :
       (\A id \in DOMAIN reg : reg[id].ContainerID = id) =>
         \A first \in Orders(DOMAIN reg), second \in Orders(DOMAIN reg) :
           LET once == ReconcileOn(SchedState, reg, first)
           IN ReconcileOn(once, reg, second) = once

\* a job is on the schedule, and a call with another cron for its container
\* changes the scheduler: the first call of the pair is not a no-op
C33_Witness ==
  \E id \in DOMAIN activeJobs : \E spec \in SchedInputs(id) :
    /\ activeJobs[id].cronID \in cronEntries
    /\ spec.Cron # activeJobs[id].spec.Cron
    /\ CronParses(CronSpecToUse(spec.Cron))
    /\ AddOrUpdateJobOn(SchedState, id, spec) # SchedState

\* ------------------------------------------ the watcher and its reconnects
\* the reconnect waits followed in one run of the model
MaxReconnects == 7

watcherRest ==
  <<schedVars, inv, held, cfgVars, storeVars, queue, now, gc, breaker, worker,
    stop, ticks, main, local>>

\* the labels of the containers of the runtime: a backup switched on or off
RuntimeLabels == {LabelsOn("postgres", EveryMinute, Conn1), LabelsOff}

\* the runtime starts container id with these labels, or destroys it; a
\* watcher that listens to cli.Events receives the event and handles it, a
\* watcher that does not never hears of it
RuntimeChange(id, started, labels) ==
  /\ ~started => id \in DOMAIN containers
  /\ containers' = IF started THEN Put(containers, id, labels)
                   ELSE Del(containers, id)
  /\ IF watcher.pc = "listening"
     THEN /\ HandleEvent(id, IF started THEN "start" ELSE "destroy", TRUE,
                         labels)
          /\ docker' = [docker EXCEPT ![id] = IF started THEN labels
                                              ELSE NotInspected]
     ELSE UNCHANGED <<registry, watchLog, docker, watcher, watcherRest>>

\* startEventLoop up to the reset: TestDockerConnection pings the runtime; a
\* failed ping returns the error, after a good one reconnectBackoff is one
\* second again
WatcherProbe(ok) ==
  /\ watcher.pc = "start"
  /\ ~main.ctxCancelled
  /\ watcher' = IF ok
                THEN [watcher EXCEPT !.pc = "scan", !.reconnectBackoff = 1]
                ELSE [watcher EXCEPT !.pc = "failed"]
  /\ UNCHANGED <<registry, watchLog, docker, containers, watcherRest>>

\* the loop of startEventLoop over the containers ContainerList returned:
\* each one whose ContainerInspect succeeds (inspected) goes through
\* parseAndRegister; w is the registry, the last log line and the labels seen
RECURSIVE ScanOn(_, _, _, _)
ScanOn(w, list, order, inspected) ==
  IF order = <<>> THEN w
  ELSE LET id == Head(order)
           seen ==
             [registry |-> parseAndRegister(w.registry, id, list[id]),
              watchLog |-> parseAndRegisterLog(w.registry, w.watchLog, id,
                                               list[id]),
              docker |-> [w.docker EXCEPT ![id] = list[id]]]
       IN ScanOn(IF id \in inspected THEN seen ELSE w, list, Tail(order),
                 inspected)

\* startEventLoop after the reset: ContainerList (All: true) fails and the
\* error is returned, or the containers listed are inspected and registered
\* and the watcher subscribes to cli.Events
WatcherScan(listOk, inspected) ==
  /\ watcher.pc = "scan"
  /\ IF listOk
     THEN \E order \in Orders(DOMAIN containers) :
            LET w == ScanOn([registry |-> registry, watchLog |-> watchLog,
                             docker |-> docker],
                            containers, order, inspected)
            IN /\ registry' = w.registry
               /\ watchLog' = w.watchLog
               /\ docker' = w.docker
               /\ watcher' = [watcher EXCEPT !.pc = "listening"]
     ELSE /\ watcher' = [watcher EXCEPT !.pc = "failed"]
          /\ UNCHANGED <<registry, watchLog, docker>>
  /\ UNCHANGED <<containers, watcherRest>>

\* case err := <-errs with an error: startEventLoop returns "docker event
\* stream error"
WatcherStreamError ==
  /\ watcher.pc = "listening"
  /\ watcher' = [watcher EXCEPT !.pc = "failed"]
  /\ UNCHANGED <<registry, watchLog, docker, containers, watcherRest>>

\* case err := <-errs without one: the channel is closed, startEventLoop
\* returns nil and so does Start
WatcherStreamClosed ==
  /\ watcher.pc = "listening"
  /\ watcher' = [watcher EXCEPT !.pc = "stopped"]
  /\ UNCHANGED <<registry, watchLog, docker, containers, watcherRest>>

\* Start after startEventLoop returned an error: time.After(reconnectBackoff)
\* fires, reconnectBackoff is doubled up to maxBackoff and the loop goes on
WatcherWait ==
  /\ watcher.pc = "failed"
  /\ Len(watcher.waits) < MaxReconnects
  /\ watcher' =
       [watcher EXCEPT
          !.pc = "start",
          !.waits = Append(@, watcher.reconnectBackoff),
          !.reconnectBackoff =
            IF 2 * watcher.reconnectBackoff > watcher.maxBackoff
            THEN watcher.maxBackoff
            ELSE 2 * watcher.reconnectBackoff]
  /\ UNCHANGED <<registry, watchLog, docker, containers, watcherRest>>

\* case <-ctx.Done() of Start and of startEventLoop: the watcher returns
WatcherDone ==
  /\ watcher.pc \in {"start", "listening", "failed"}
  /\ main.ctxCancelled
  /\ watcher' = [watcher EXCEPT !.pc = "stopped"]
  /\ UNCHANGED <<registry, watchLog, docker, containers, watcherRest>>

\* the runtime changes with or without the watcher listening, the watcher
\* connects, scans, listens, fails and reconnects until main is signalled
ReconnectNext ==
  \/ \E id \in Ids, labels \in RuntimeLabels : RuntimeChange(id, TRUE, labels)
  \/ \E id \in Ids : RuntimeChange(id, FALSE, NoLabels)
  \/ \E ok \in BOOLEAN : WatcherProbe(ok)
  \/ \E inspected \in SUBSET Ids : WatcherScan(TRUE, inspected)
  \/ WatcherScan(FALSE, {})
  \/ WatcherStreamError
  \/ WatcherStreamClosed
  \/ WatcherWait
  \/ Signal
  \/ WatcherDone

ReconnectSpec == WatchInit /\ [][ReconnectNext]_vars

\* ------------------------------------------- the nightly sweep of all specs
\* the container whose backups were stored under each key of the model
KeyOwner(key) == IF key = "pg/k1" THEN "c1" ELSE "c2"

\* the registries of the sweep: c1 keeps its backups one day, under "pg" or
\* without a prefix; c2 has no retention of its own and stores under "pg" or
\* "my"
SweepRegistries ==
  {[id \in {"c1", "c2"} |->
      IF id = "c1"
      THEN [BackupSpec("c1", AtThree, Conn1)
              EXCEPT !.Prefix = prefix1, !.Retention = 24 * 3600]
      ELSE [BackupSpec("c2", AtThree, Conn2) EXCEPT !.Prefix = prefix2]] :
     prefix1 \in {"", "pg"}, prefix2 \in {"pg", "my"}}

\* for containerID, spec := range activeSpecs of runGlobalGC, one spec: an
\* enabled spec gets a Runner from gc.NewRunner, whose RunGC then runs; the
\* specs come in any order, night after night
GlobalGCSpec(id, globalRetentionPeriod, dryRun) ==
  /\ gc.pc \in {"none", "done"}
  /\ id \in DOMAIN registry
  /\ registry[id].Enabled
  /\ gc' = NewRunner(registry[id], globalRetentionPeriod, dryRun)
  /\ UNCHANGED <<objects, gcRest>>

\* two registered specs and a store that holds backups of both, each under
\* the prefix of its spec
SweepInit ==
  /\ registry \in SweepRegistries
  /\ objects \in Stores
  /\ \A o \in objects : KeyDir(o.name) = registry[KeyOwner(o.name)].Prefix
  /\ now = SweepTime
  /\ gc = NoRunner
  /\ activeJobs = EmptyMap
  /\ closures = EmptyMap
  /\ cronEntries = {}
  /\ nextID = 1
  /\ inv = [e \in EntryIDs |-> IdleInv]
  /\ held = 0
  /\ limit = NewSchedulerLimit(0)
  /\ globalURL = ""
  /\ globalSecret = ""
  /\ maxRetries = DefaultWebhookMaxRetries
  /\ sidecars = EmptyMap
  /\ queue = <<>>
  /\ breaker = NewCircuitBreaker(FailureThreshold, RecoveryTimeout)
  /\ worker = IdleWorker
  /\ stop = [closed |-> FALSE, returned |-> FALSE]
  /\ watchLog = NoLog
  /\ docker = [id \in Ids |-> NotInspected]
  /\ ticks = NoTicks
  /\ main = MainLoop
  /\ local = NoDisk
  /\ watcher = NewWatcher
  /\ containers = EmptyMap

SweepNext ==
  \/ \E id \in Ids, dryRun \in BOOLEAN :
       GlobalGCSpec(id, DefaultGlobalRetentionPeriod, dryRun)
  \/ GCCancel
  \/ GCStart
  \/ \E ok \in BOOLEAN :
       \E order \in Orders(ListObjects(objects, gc.spec.Prefix)) :
         GCList(ok, order)
  \/ \E ok \in BOOLEAN : GCIterate(ok)
  \/ GCReturn

SweepSpec == SweepInit /\ [][SweepNext]_vars

\* --------------------------------------- one job on a store that never fails
\* the steps of the run of entry e when every os.Remove and every
\* DeleteObject works: the dump ends well, with an error or in a panic, early
\* or late, and writing the file may fail
CleanStep(e) ==
  \/ JobGetDumper(e)
  \/ JobTestConnection(e, TRUE)
  \/ JobGetWriter(e, TRUE)
  \/ DumperStart(e)
  \/ DumperFailEarly(e)
  \/ DumperWrite(e)
  \/ \E result \in {"ok", "err", "panic"} : DumperClose(e, result)
  \/ DumperReturn(e)
  \/ WriterStart(e, TRUE)
  \/ WriterRead(e)
  \/ WriterEOF(e)
  \/ WriterPipeError(e, TRUE)
  \/ WriterFileError(e, TRUE)
  \/ JobWait(e, TRUE)
  \/ JobNotify(e)
  \/ JobReturn(e)

\* one container whose job runs again and again; the deadline of a run may
\* expire at any point of it
CleanupNext ==
  \/ \E spec \in PipeInputs : AddOrUpdateJob("c1", spec)
  \/ \E e \in EntryIDs : CronTickRun(e)
  \/ \E e \in EntryIDs : JobDeadline(e)
  \/ \E e \in EntryIDs : CleanStep(e)
  \/ WorkerReceive

CleanupSpec == PipeInit /\ [][CleanupNext]_vars

C35_ReconnectWaits ==
  \A k \in DOMAIN watcher.waits :
    watcher.waits[k] = IF k >= 6 THEN 30 ELSE 2 ^ (k - 1)

\* C39: when the rescan that follows a reconnect of the watcher completes and
\* the watcher listens again, the registry holds no container id that the
\* runtime does not list: what was removed while the stream was down is gone
C39_RescanEvicts ==
  [][(watcher.pc = "scan" /\ watcher'.pc = "listening")
       => DOMAIN registry' \subseteq DOMAIN containers']_vars

\* C36: no job invocation that is still running executes Sender.Enqueue after
\* Stop has closed the queue of the sender it holds: a job that has reached
\* its notification stays there, and the process does not panic
C36_NoEnqueueAfterStop ==
  [][\A e \in EntryIDs :
       (inv[e].pc = "notify" /\ stop.closed)
         => (inv'[e].pc = "notify" /\ main'.pc # "panicked")]_vars

\* C37: once a SIGHUP reload has finished no run started by the scheduler it
\* replaced is still under way, and the runs under way in the process, of the
\* old and of the new scheduler together, never exceed the limit
C37_NoOldJobsAfterReload ==
  /\ main.reloads > 0 => main.oldJobs = 0
  /\ main.oldJobs + Cardinality({e \in EntryIDs : Running(e)}) <= limit

\* C38: the sweep of one spec deletes no stored object that was produced for
\* another spec unless the effective retention of that other spec has elapsed
\* for it, whether the two specs share a prefix or the sweeping spec has none
C38_SweepKeepsOtherSpecs ==
  [][\A o \in objects \ objects' :
       LET owner == registry[KeyOwner(o.name)]
           retention == IF owner.Retention > 0 THEN owner.Retention
                        ELSE gc.globalRetentionPeriod
       IN KeyOwner(o.name) # gc.spec.ContainerID
            => Before(LastModified(o), now - retention)]_vars

\* C40: when jobFunc has waited for its two workers and the run has failed,
\* no object is left under the key of the run, unless the DeleteObject of the
\* cleanup failed, whatever the order in which the deadline expired, the
\* dumper failed and the writer finished
C40_FailedRunLeavesNoObject ==
  [][\A e \in EntryIDs :
       (JobWait(e, TRUE) /\ ~inv'[e].payload.Success)
         => inv[e].objectName \notin objects']_vars

====
